---- MODULE Spec2Model ----
(***************************************************************************)
(* Frame Art: the artwork store (src/src/app/api/images/route.ts), its     *)
(* storage-key grammar, and the client generation queue.                   *)
(*                                                                         *)
(* Strings are sequences of one-character strings, so that split, join,    *)
(* replace, includes and parseInt are computed character by character as   *)
(* the JavaScript does.                                                    *)
(***************************************************************************)
EXTENDS Integers, Sequences, FiniteSets, TLC

(***************************************************************************)
(* Characters and JavaScript string primitives                             *)
(***************************************************************************)
LowerChars ==
  {"a","b","c","d","e","f","g","h","i","j","k","l","m","n","o","p","q","r",
   "s","t","u","v","w","x","y","z"}

UpperSeq == <<"A","D","G","U">>

LowerSeq == <<"a","d","g","u">>

UpperChars == {UpperSeq[i] : i \in 1..Len(UpperSeq)}

DigitSeq == <<"0","1","2","3","4","5","6","7","8","9">>

DigitChars == {DigitSeq[i] : i \in 1..Len(DigitSeq)}

\* String.prototype.toLowerCase on one character
ToLowerChar(c) ==
  IF c \in UpperChars
    THEN LowerSeq[CHOOSE i \in 1..Len(UpperSeq) : UpperSeq[i] = c]
    ELSE c

ToLowerCase(s) == [i \in 1..Len(s) |-> ToLowerChar(s[i])]

\* s.startsWith(p) at offset i (1-based): p occurs in s at i
OccursAt(s, p, i) ==
  /\ i >= 1
  /\ i + Len(p) - 1 <= Len(s)
  /\ \A j \in 1..Len(p) : s[i + j - 1] = p[j]

\* String.prototype.includes
Includes(s, p) == \E i \in 1..(Len(s) + 1) : OccursAt(s, p, i)

\* String.prototype.endsWith
EndsWith(s, p) == Len(p) <= Len(s) /\ OccursAt(s, p, Len(s) - Len(p) + 1)

\* String.prototype.replace(pattern: string, rep): the first occurrence only
ReplaceFirst(s, p, rep) ==
  IF ~Includes(s, p) THEN s
  ELSE LET i == CHOOSE k \in 1..(Len(s) + 1) :
                  OccursAt(s, p, k) /\ \A m \in 1..(k - 1) : ~OccursAt(s, p, m)
       IN SubSeq(s, 1, i - 1) \o rep \o SubSeq(s, i + Len(p), Len(s))

\* String.prototype.replace(/c/g, d) for a one-character class
ReplaceAllChar(s, c, d) == [i \in 1..Len(s) |-> IF s[i] = c THEN d ELSE s[i]]

\* String.prototype.split(sep) for a one-character separator
RECURSIVE Split(_, _)
Split(s, sep) ==
  IF \A i \in 1..Len(s) : s[i] # sep THEN <<s>>
  ELSE LET i == CHOOSE k \in 1..Len(s) :
                  s[k] = sep /\ \A m \in 1..(k - 1) : s[m] # sep
       IN <<SubSeq(s, 1, i - 1)>> \o Split(SubSeq(s, i + 1, Len(s)), sep)

\* Array.prototype.join(sep)
RECURSIVE Join(_, _)
Join(parts, sep) ==
  IF Len(parts) = 0 THEN <<>>
  ELSE IF Len(parts) = 1 THEN parts[1]
  ELSE parts[1] \o <<sep>> \o Join(Tail(parts), sep)

\* Array.prototype.slice(1, -1)
SliceMiddle(parts) ==
  IF Len(parts) <= 2 THEN <<>> ELSE SubSeq(parts, 2, Len(parts) - 1)

DigitValue(c) == (CHOOSE i \in 1..10 : DigitSeq[i] = c) - 1

\* Number -> decimal string, as in a template literal `${timestamp}`
RECURSIVE NumberToString(_)
NumberToString(n) ==
  IF n < 10 THEN <<DigitSeq[n + 1]>>
  ELSE NumberToString(n \div 10) \o <<DigitSeq[(n % 10) + 1]>>

NaN == -1

\* parseInt(s): the value of the longest prefix of decimal digits, NaN if none
RECURSIVE ParseDigits(_, _)
ParseDigits(s, acc) ==
  IF Len(s) = 0 \/ Head(s) \notin DigitChars THEN acc
  ELSE ParseDigits(Tail(s), acc * 10 + DigitValue(Head(s)))

ParseInt(s) ==
  IF Len(s) = 0 \/ Head(s) \notin DigitChars THEN NaN ELSE ParseDigits(s, 0)

(***************************************************************************)
(* Storage-key grammar: frame-art/{id}_{safeStyle}_{timestamp}.png         *)
(***************************************************************************)
PREFIX == <<"f","r","a","m","e","-","a","r","t","/">>

PNG == <<".","p","n","g">>

ARTWORK == <<"a","r","t","w","o","r","k">>

UNKNOWN == <<"U","n","k","n","o","w","n">>

\* crypto.randomUUID().slice(0, 8): the length of an artwork id
ID_LEN == 8

\* /[^a-zA-Z0-9-]/g
IsSafeChar(c) == c \in LowerChars \cup UpperChars \cup DigitChars \cup {"-"}

\* (style || 'artwork').replace(/[^a-zA-Z0-9-]/g, '-') with the case kept:
\* the sanitiser with its toLowerCase() forgotten
SafeStyle_KeepCase(style) ==
  LET s == IF style = <<>> THEN ARTWORK ELSE style
  IN [i \in 1..Len(s) |-> IF IsSafeChar(s[i]) THEN s[i] ELSE "-"]

\* (style || 'artwork').replace(/[^a-zA-Z0-9-]/g, '-').toLowerCase()
SafeStyle(style) ==
  LET s == IF style = <<>> THEN ARTWORK ELSE style
  IN ToLowerCase([i \in 1..Len(s) |-> IF IsSafeChar(s[i]) THEN s[i] ELSE "-"])

\* `frame-art/${id}_${safeStyle}_${timestamp}.png`
EncodeKey(id, safeStyle, timestamp) ==
  PREFIX \o id \o <<"_">> \o safeStyle \o <<"_">> \o NumberToString(timestamp) \o PNG

\* blob.pathname.replace('frame-art/', '').replace('.png', '')
FileName(pathname) == ReplaceFirst(ReplaceFirst(pathname, PREFIX, <<>>), PNG, <<>>)

\* parts.slice(1, -1).join('_') mistaken for parts[1]
DecodeStyle_SecondToken(parts) ==
  IF Len(parts) < 2 \/ parts[2] = <<>> THEN UNKNOWN ELSE parts[2]

\* parts.slice(1, -1).join('_') || 'Unknown'
DecodeStyle(parts) ==
  LET joined == Join(SliceMiddle(parts), "_")
  IN IF joined = <<>> THEN UNKNOWN ELSE joined

\* The id, style and timestamp GET reads from a pathname at time `clock`:
\*   id = parts[0] || blob.pathname
\*   style = parts.slice(1, -1).join('_') || 'Unknown'
\*   timestamp = parts[parts.length - 1] || Date.now().toString()
DecodeKey(pathname, clock) ==
  LET parts == Split(FileName(pathname), "_")
      last  == parts[Len(parts)]
  IN [id        |-> IF parts[1] = <<>> THEN pathname ELSE parts[1],
      style     |-> DecodeStyle(parts),
      timestamp |-> IF last = <<>> THEN NumberToString(clock) ELSE last]

\* new Date(parseInt(timestamp) || Date.now()): the millisecond epoch of
\* createdAt.  toISOString() and new Date(iso).getTime() are inverse on
\* integral milliseconds, so createdAt is kept as that integer.
CreatedAtMillis(timestamp, clock) ==
  LET n == ParseInt(timestamp)
  IN IF n = NaN \/ n = 0 THEN clock ELSE n

(***************************************************************************)
(* Bounds                                                                  *)
(***************************************************************************)
\* most keys the store holds
MaxStore == 2

\* keys returned by one list() call of the blob service
PageLimit == 1

\* longest slug given to the key codec
MaxSlugLen == 3

\* most generations the user submits in one session
MaxGens == 5

(***************************************************************************)
(* State                                                                   *)
(***************************************************************************)
VARIABLES
  del,          \* page: the artworks deleted on the server, the DELETE calls in flight
  extract,      \* routes: a provider response, the route reading it, what it extracts
  canvas,       \* detail view: the canvas, its pan gesture and its pinch gesture
  lightbox,     \* lightbox: open, zoom, position and the drag gesture
  store,        \* blob storage: the set of pathnames under frame-art/
  now,          \* Date.now() on the server
  resp,         \* the last HTTP response of /api/images, with its request
  prev,         \* the successful save or delete that resp directly follows
  kIn,          \* key codec: the (id, slug, timestamp) given to encode
  kKey,         \* key codec: the encoded pathname
  kOut,         \* key codec: what decode read back
  kPc,          \* key codec: "input", "encoded" or "decoded"
  selectedStyle, \* page: a style is selected
  queue,        \* page: the generation queue, items [id, status, error]
  savedImages,  \* page: the gallery list, artwork ids, first is leftmost
  nextId,       \* page: the id the next queue item gets
  calls,        \* each item's POST /api/generate: "none", "sent", "ok" or an error
  serverArt,    \* artworks saved on the server, oldest first
  refresh,      \* loadSavedImages in flight: its phase and the list it carries
  completed,    \* the items whose success the page has handled, in that order
  sinceLoad,    \* how many of them it handled since the gallery list was last loaded
  lastClick,    \* the user's click the last step handled, "none" if it handled none
  apiKey,       \* routes: process.env.GEMINI_API_KEY is set
  artBlobs,     \* routes: the artworks put to blob storage, oldest first
  rresp,        \* routes: the last answer of /api/generate, /api/edit or a save
  viewer,       \* detail view: currentImage, editMessages, isEditing, editInput
  edits,        \* detail view: the POST /api/edit calls not yet resolved
  single        \* page.tsx: the one generation it runs at a time

svars == <<store, now, resp, prev>>

kvars == <<kIn, kKey, kOut, kPc>>

cvars == <<selectedStyle, queue, savedImages, nextId, calls, serverArt,
           refresh, completed, sinceLoad, lastClick>>

xvars == <<apiKey, artBlobs, rresp, viewer, edits, single>>

\* the zoom and pan state of the detail view's canvas and of the lightbox, and
\* the reading of a provider response and the deletes of the page
zvars == <<canvas, lightbox, extract, del>>

vars == <<svars, kvars, cvars, xvars, zvars>>

(***************************************************************************)
(* Inputs                                                                  *)
(***************************************************************************)
Str_deadbeef == <<"d","e","a","d","b","e","e","f">>

Str_1a2b3c4d == <<"1","a","2","b","3","c","4","d">>

\* ids crypto.randomUUID().slice(0, 8) can return
Ids == {s \in {Str_deadbeef, Str_1a2b3c4d} : Len(s) = ID_LEN}

Str_DawnGlow == <<"D","a","w","n"," ","G","l","o","w">>

\* style labels a request can carry; <<>> is an absent or empty style
\* a label whose slug, a-deadbeef-, contains an id
Str_A_deadbeef == <<"A","_","d","e","a","d","b","e","e","f","-">>

Labels == {<<>>, Str_DawnGlow, Str_A_deadbeef}

Prompts == {"", "p"}

\* values of Date.now(): one and two decimal digits
Times == 9..10

NoKey == <<>>

NoImage == [id |-> <<>>, url |-> NoKey, prompt |-> "", style |-> <<>>, createdAt |-> 0]

\* A response, with the request fields it answers: reqStyle (POST), reqId
\* (DELETE); deleted is the id part of the pathname a DELETE removed.
NoResp ==
  [op |-> "none", status |-> 0, image |-> NoImage, images |-> <<>>,
   reqStyle |-> <<>>, reqId |-> <<>>, deleted |-> <<>>]

\* What a GET or DELETE remembers of the response before it
Brief(r) ==
  IF r.status = 200 /\ r.op \in {"save", "delete"} THEN [r EXCEPT !.images = <<>>] ELSE NoResp

(***************************************************************************)
(* The blob service: put, list (paginated), del                            *)
(***************************************************************************)
\* blob.url: the service's address of a pathname
UrlOf(pathname) == pathname

\* The orders in which the service may enumerate the stored pathnames
Listings(S) ==
  {l \in [1..Cardinality(S) -> S] : \A i, j \in 1..Cardinality(S) : l[i] = l[j] => i = j}

Min(a, b) == IF a <= b THEN a ELSE b

\* list({ prefix: 'frame-art/', cursor }): one page; cursor 0 is undefined
ListPage(l, cursor) ==
  [blobs   |-> SubSeq(l, cursor + 1, Min(cursor + PageLimit, Len(l))),
   hasMore |-> cursor + PageLimit < Len(l),
   cursor  |-> cursor + PageLimit]

\* the listing loop without its loop: the first page only
FetchAllBlobs_FirstPage(l, cursor) == ListPage(l, cursor).blobs

\* do { response = await list({prefix, cursor}); allBlobs = allBlobs.concat(...);
\*      cursor = response.hasMore ? response.cursor : undefined } while (cursor):
\* the loop stops at the first page without hasMore; allBlobs is the pages
\* fetched until then, one after the other
FetchAllBlobs(l, cursor) ==
  LET PageAt(k) == ListPage(l, cursor + (k - 1) * PageLimit)
      pages == CHOOSE k \in 1..(Len(l) + 1) :
                 /\ ~PageAt(k).hasMore
                 /\ \A j \in 1..(k - 1) : PageAt(j).hasMore
      total == (pages - 1) * PageLimit + Len(PageAt(pages).blobs)
  IN [i \in 1..total |->
        PageAt(((i - 1) \div PageLimit) + 1).blobs[((i - 1) % PageLimit) + 1]] \o <<>>

(***************************************************************************)
(* GET /api/images                                                         *)
(***************************************************************************)
LIST_CAP == 100

\* the record GET builds from one blob
ImageOfBlob(pathname, clock) ==
  LET d == DecodeKey(pathname, clock)
  IN [id        |-> d.id,
      url       |-> UrlOf(pathname),
      prompt    |-> "",
      style     |-> ReplaceAllChar(d.style, "-", " "),
      createdAt |-> CreatedAtMillis(d.timestamp, clock)]

\* Array.prototype.sort((a, b) => time(b) - time(a)): stable, newest first;
\* a record's place is one more than the number of records that go before it
SortDesc(s) ==
  LET n == Len(s)
      key == [i \in 1..n |-> s[i].createdAt] \o <<>>
      Before(j, i) == key[j] > key[i] \/ (key[j] = key[i] /\ j < i)
      byRank == { <<Cardinality({j \in 1..n : Before(j, i)}) + 1, i>> : i \in 1..n }
  IN [k \in 1..n |-> s[(CHOOSE p \in byRank : p[1] = k)[2]]] \o <<>>

\* allBlobs.filter(endsWith('.png')).map(...).sort(...).slice(0, 100)
ImagesOf(allBlobs, clock) ==
  LET pngs   == SelectSeq(allBlobs, LAMBDA p : EndsWith(p, PNG))
      mapped == [i \in 1..Len(pngs) |-> ImageOfBlob(pngs[i], clock)]
      sorted == SortDesc(mapped)
  IN SubSeq(sorted, 1, Min(Len(sorted), LIST_CAP))

\* GET: the listing succeeded on every page
GETOk ==
  /\ \E l \in Listings(store) :
       resp' = [NoResp EXCEPT !.op = "list", !.status = 200,
                              !.images = ImagesOf(FetchAllBlobs(l, 0), now)]
  /\ prev' = Brief(resp)
  /\ UNCHANGED <<store, now, kvars, zvars, cvars, xvars>>

\* GET: list() threw; the catch answers 500 with images: []
\* the body of a 200: { images }
ListOkBody(images) == [status |-> 200, hasImages |-> TRUE, images |-> images]

\* a catch that answers with what was listed before the failure
ListErrorBody_Partial(listedSoFar) ==
  [status |-> 500, hasImages |-> TRUE, images |-> listedSoFar]

\* catch: { error: 'Failed to list images', images: [] }, status 500
ListErrorBody(listedSoFar) == [status |-> 500, hasImages |-> TRUE, images |-> <<>>]

\* the number of list() calls a complete enumeration of l takes
NumPages(l) == IF Len(l) = 0 THEN 1 ELSE (Len(l) + PageLimit - 1) \div PageLimit

\* allBlobs when the k-th list() call throws
FetchedBefore(l, k) == SubSeq(l, 1, Min((k - 1) * PageLimit, Len(l)))

\* GET: the k-th list() call of the enumeration l throws
GETFailed(l) ==
  /\ \E k \in 1..NumPages(l) :
       LET body == ListErrorBody(ImagesOf(FetchedBefore(l, k), now))
       IN resp' = [NoResp EXCEPT !.op = "list", !.status = body.status,
                                 !.images = body.images]
  /\ prev' = Brief(resp)
  /\ UNCHANGED <<store, now, kvars, zvars, cvars, xvars>>

GETError == \E l \in Listings(store) : GETFailed(l)

(***************************************************************************)
(* POST /api/images                                                        *)
(***************************************************************************)
\* if (!imageBase64) return 400
POSTNoImage ==
  /\ resp' = [NoResp EXCEPT !.op = "save", !.status = 400]
  /\ prev' = NoResp
  /\ UNCHANGED <<store, now, kvars, zvars, cvars, xvars>>

\* put() threw; the catch answers 500
POSTError ==
  /\ resp' = [NoResp EXCEPT !.op = "save", !.status = 500]
  /\ prev' = NoResp
  /\ UNCHANGED <<store, now, kvars, zvars, cvars, xvars>>

POSTOk ==
  \E style \in Labels, prompt \in Prompts, id \in Ids :
    LET timestamp == now
        filename  == EncodeKey(id, SafeStyle(style), timestamp)
        image     == [id        |-> id,
                      url       |-> UrlOf(filename),
                      prompt    |-> prompt,
                      style     |-> IF style = <<>> THEN UNKNOWN ELSE style,
                      createdAt |-> timestamp]
    IN /\ Cardinality(store \cup {filename}) <= MaxStore
       /\ store' = store \cup {filename}
       /\ resp' = [NoResp EXCEPT !.op = "save", !.status = 200, !.image = image,
                                 !.reqStyle = style]
       /\ prev' = NoResp
       /\ UNCHANGED <<now, kvars, zvars, cvars, xvars>>

(***************************************************************************)
(* DELETE /api/images?id=                                                  *)
(***************************************************************************)
\* blobs.find(blob => blob.pathname.includes(id))
FindBlob(blobs, id) ==
  LET hits == {i \in 1..Len(blobs) : Includes(blobs[i], id)}
  IN IF hits = {} THEN NoKey
     ELSE blobs[CHOOSE i \in hits : \A j \in hits : i <= j]

DeleteAnswer(id, st, gone) ==
  [NoResp EXCEPT !.op = "delete", !.status = st, !.reqId = id, !.deleted = gone]

\* if (!id) return 400
DELETENoId ==
  /\ resp' = DeleteAnswer(<<>>, 400, <<>>)
  /\ prev' = Brief(resp)
  /\ UNCHANGED <<store, now, kvars, zvars, cvars, xvars>>

\* list() or del() threw; the catch answers 500
DELETEError ==
  /\ \E id \in Ids : resp' = DeleteAnswer(id, 500, <<>>)
  /\ prev' = Brief(resp)
  /\ UNCHANGED <<store, now, kvars, zvars, cvars, xvars>>

\* const { blobs } = await list({ prefix }): the first page only
DELETEFind ==
  \E id \in Ids, l \in Listings(store) :
    LET blobs        == ListPage(l, 0).blobs
        blobToDelete == FindBlob(blobs, id)
    IN /\ prev' = Brief(resp)
       /\ UNCHANGED <<now, kvars, zvars, cvars, xvars>>
       /\ IF blobToDelete = NoKey
            THEN resp' = DeleteAnswer(id, 404, <<>>) /\ UNCHANGED store
            ELSE /\ resp' = DeleteAnswer(id, 200, DecodeKey(blobToDelete, now).id)
                 /\ store' = store \ {blobToDelete}

\* Date.now() advances
Tick ==
  /\ now + 1 \in Times
  /\ now' = now + 1
  /\ UNCHANGED <<store, resp, prev, kvars, zvars, cvars, xvars>>

KeyIdle == [id |-> <<>>, slug |-> <<>>, ts |-> 0]

\* no upstream image call was made
NoSynth == [kind |-> "none", status |-> 0, size |-> <<0, 0>>]

\* no answer of /api/generate or /api/edit yet; with an answer, the request
\* and what the calls it made met: fields (the required fields were there),
\* craft, source, synth and put
NoRouteResp ==
  [op |-> "none", status |-> 0, error |-> <<>>, details |-> <<>>, calls |-> <<>>,
   image |-> 0, fields |-> FALSE, craft |-> "none", source |-> "none",
   synth |-> NoSynth, put |-> FALSE]

\* no detail view is mounted; mount counts the detail views mounted so far
ViewerClosed ==
  [opened |-> 0, currentImage |-> 0, editMessages |-> <<>>, isEditing |-> FALSE,
   mount |-> 0]

\* page.tsx before a generation
SingleIdle == [isGenerating |-> FALSE, phase |-> "idle", size |-> <<0, 0>>, error |-> <<>>]

RoutesUnused ==
  /\ apiKey = FALSE /\ artBlobs = <<>> /\ rresp = NoRouteResp
  /\ viewer = ViewerClosed /\ edits = <<>> /\ single = SingleIdle

\* the canvas of a detail view just mounted; scale is in hundredths, -1 is null,
\* gestures counts the events handled so far
CanvasIdle ==
  [scale |-> 100, position |-> <<0, 0>>, isPanning |-> FALSE, panStart |-> <<0, 0>>,
   lastTouchDistance |-> -1, gestures |-> 0]

\* the lightbox before it is opened; zoom is in halves, gestures counts the
\* events handled so far
LightboxIdle ==
  [isOpen |-> FALSE, zoom |-> 2, position |-> <<0, 0>>, isDragging |-> FALSE,
   dragStart |-> <<0, 0>>, gestures |-> 0]

\* no provider response is being read
ExtractIdle == [route |-> "none", parts |-> <<>>, pc |-> "idle", out |-> <<>>]

\* nothing deleted, no DELETE in flight, none sent
DelIdle == [gone |-> {}, calls |-> <<>>, sent |-> 0]

ZoomUnused ==
  canvas = CanvasIdle /\ lightbox = LightboxIdle /\ extract = ExtractIdle /\ del = DelIdle

KeyUnused == kIn = KeyIdle /\ kKey = NoKey /\ kOut = KeyIdle /\ kPc = "idle"

\* loadSavedImages: its phase and the response body it holds
RefreshWith(phase, body) ==
  [phase |-> phase, status |-> body.status, hasImages |-> body.hasImages,
   images |-> body.images]

NoBody == [status |-> 0, hasImages |-> FALSE, images |-> <<>>]

RefreshIdle == RefreshWith("idle", NoBody)

RefreshSent == RefreshWith("sent", NoBody)

PageUnused ==
  /\ selectedStyle = FALSE /\ queue = <<>> /\ savedImages = <<>> /\ nextId = 1
  /\ calls = <<>> /\ serverArt = <<>> /\ refresh = RefreshIdle
  /\ completed = <<>> /\ sinceLoad = 0 /\ lastClick = "none"

InitStore ==
  /\ store = {}
  /\ now = 9
  /\ resp = NoResp
  /\ prev = NoResp
  /\ KeyUnused
  /\ ZoomUnused
  /\ PageUnused
  /\ RoutesUnused

NextStore ==
  \/ GETOk \/ GETError
  \/ POSTNoImage \/ POSTError \/ POSTOk
  \/ DELETENoId \/ DELETEError \/ DELETEFind
  \/ Tick

SpecStore == InitStore /\ [][NextStore]_vars

(***************************************************************************)
(* The key codec on its own: encode as POST composes the pathname, decode  *)
(* as GET reads it back                                                    *)
(***************************************************************************)
SlugChars == {"a", "1", "-", "_"}

RECURSIVE StringsUpTo(_, _)
StringsUpTo(A, n) ==
  IF n = 0 THEN {<<>>}
  ELSE LET shorter == StringsUpTo(A, n - 1)
       IN shorter \cup {Append(s, c) : s \in shorter, c \in A}

\* safeStyle is never empty: POST substitutes 'artwork' for an empty style
Slugs == StringsUpTo(SlugChars, MaxSlugLen) \ {<<>>}

KeyTimes == {9, 10, 1234}

KeyEncode ==
  /\ kPc = "input"
  /\ kKey' = EncodeKey(kIn.id, kIn.slug, kIn.ts)
  /\ kPc' = "encoded"
  /\ UNCHANGED <<kIn, kOut, svars, cvars, xvars, zvars>>

KeyDecode ==
  /\ kPc = "encoded"
  /\ LET d == DecodeKey(kKey, now)
     IN kOut' = [id |-> d.id, slug |-> d.style, ts |-> CreatedAtMillis(d.timestamp, now)]
  /\ kPc' = "decoded"
  /\ UNCHANGED <<kIn, kKey, svars, cvars, xvars, zvars>>

InitKey ==
  /\ kIn \in [id : Ids, slug : Slugs, ts : KeyTimes]
  /\ kKey = NoKey /\ kOut = KeyIdle /\ kPc = "input"
  /\ store = {} /\ now = 2000 /\ resp = NoResp /\ prev = NoResp
  /\ PageUnused
  /\ RoutesUnused
  /\ ZoomUnused

NextKey == KeyEncode \/ KeyDecode

SpecKey == InitKey /\ [][NextKey]_vars

(***************************************************************************)
(* The page: generation queue and gallery                                  *)
(***************************************************************************)
\* the admission bound handed to GenerateButton as maxQueue
MAX_QUEUE == 4

\* throw new Error(data.error || 'Failed to generate image')
GENERATE_FAILED == "Failed to generate image"

\* setError(err instanceof Error ? err.message : 'An error occurred')
ERROR_OCCURRED == "An error occurred"

Item(id, status, error) == [id |-> id, status |-> status, error |-> error]

ItemIds(q) == {q[i].id : i \in 1..Len(q)}

ItemOf(q, id) == q[CHOOSE i \in 1..Len(q) : q[i].id = id]

StatusOf(q, id) == IF id \in ItemIds(q) THEN ItemOf(q, id).status ELSE "absent"

\* items that are pending or generating
ActiveCount(q) == Len(SelectSeq(q, LAMBDA it : it.status \in {"pending", "generating"}))

\* queueCount forgetting the failed items
QueueCount_ActiveOnly(q) == ActiveCount(q)

\* the queueCount handed to GenerateButton: failed items count until dismissed
QueueCount(q) == Len(q)

\* const isQueueFull = queueCount >= maxQueue, off by one
IsQueueFull_OffByOne(queueCount, maxQueue) == queueCount > maxQueue

\* const isQueueFull = queueCount >= maxQueue
IsQueueFull(queueCount, maxQueue) == queueCount >= maxQueue

\* <motion.button disabled={disabled || isQueueFull}> with disabled={!selectedStyle}
ButtonDisabled == ~selectedStyle \/ IsQueueFull(QueueCount(queue), MAX_QUEUE)

\* a new item that forgets the errors of the earlier ones (setError(null))
Enqueue_ClearErrors(q, id) ==
  Append([i \in 1..Len(q) |-> [q[i] EXCEPT !.error = ""]], Item(id, "pending", ""))

\* setQueue(prev => [...prev, { id, status: 'pending' }])
Enqueue(q, id) == Append(q, Item(id, "pending", ""))

\* pending -> generating for item id
SetGenerating(q, id) ==
  [i \in 1..Len(q) |-> IF q[i].id = id THEN [q[i] EXCEPT !.status = "generating"] ELSE q[i]]

\* a failure that puts the item back in line
MarkFailed_Requeue(q, id, err) ==
  [i \in 1..Len(q) |-> IF q[i].id = id
                         THEN [q[i] EXCEPT !.status = "pending", !.error = err] ELSE q[i]]

\* generating -> failed for item id, with the error message attached
MarkFailed(q, id, err) ==
  [i \in 1..Len(q) |-> IF q[i].id = id
                         THEN [q[i] EXCEPT !.status = "failed", !.error = err] ELSE q[i]]

\* a dismiss that only blanks the error
RemoveItem_KeepSlot(q, id) ==
  [i \in 1..Len(q) |-> IF q[i].id = id THEN [q[i] EXCEPT !.error = ""] ELSE q[i]]

\* setQueue(prev => prev.filter(item => item.id !== id))
RemoveItem(q, id) == SelectSeq(q, LAMBDA it : it.id # id)

\* the new artwork put at the end
PrependImage_Append(image, images) == Append(images, image)

\* the gallery kept in submission order, newest submission first
RECURSIVE PrependImage_BySubmission(_, _)
PrependImage_BySubmission(image, images) ==
  IF Len(images) = 0 \/ Head(images) < image THEN <<image>> \o images
  ELSE <<Head(images)>> \o PrependImage_BySubmission(image, Tail(images))

\* setSavedImages(prev => [data.image, ...prev])
PrependImage(image, images) == <<image>> \o images

Reverse(s) == [i \in 1..Len(s) |-> s[Len(s) + 1 - i]] \o <<>>

\* GET /api/images: newest first
ServerList == Reverse(serverArt)

\* no handler is in the middle of its run: handleGenerate has started the item
\* it queued before the page handles any other event
Settled == \A i \in 1..Len(queue) : queue[i].status # "pending"

\* onSelectStyle={setSelectedStyle}
SelectStyle ==
  /\ Settled
  /\ ~selectedStyle
  /\ selectedStyle' = TRUE
  /\ lastClick' = "none"
  /\ UNCHANGED <<queue, savedImages, nextId, calls, serverArt, refresh, completed, sinceLoad,
                 svars, kvars, zvars, xvars>>

\* a click on the Generate button while it is disabled: nothing is queued
GenerateRejected ==
  /\ Settled
  /\ ButtonDisabled
  /\ lastClick' = "rejected"
  /\ UNCHANGED <<selectedStyle, queue, savedImages, nextId, calls, serverArt, refresh,
                 completed, sinceLoad, svars, kvars, zvars, xvars>>

\* handleGenerate: the item is queued as pending
HandleGenerate ==
  /\ Settled
  /\ ~ButtonDisabled
  /\ nextId <= MaxGens
  /\ queue' = Enqueue(queue, nextId)
  /\ nextId' = nextId + 1
  /\ lastClick' = "accepted"
  /\ UNCHANGED <<selectedStyle, savedImages, calls, serverArt, refresh, completed, sinceLoad,
                 svars, kvars, zvars, xvars>>

\* handleGenerate goes on at once: pending -> generating, fetch('/api/generate')
StartGeneration(id) ==
  /\ StatusOf(queue, id) = "pending"
  /\ queue' = SetGenerating(queue, id)
  /\ calls' = [calls EXCEPT ![id] = "sent"]
  /\ lastClick' = "none"
  /\ UNCHANGED <<selectedStyle, savedImages, nextId, serverArt, refresh, completed, sinceLoad,
                 svars, kvars, zvars, xvars>>

\* what becomes of the answer: the page handles it if the item still waits
Answer(id, answer) == IF StatusOf(queue, id) = "generating" THEN answer ELSE "none"

\* POST /api/generate on the server: the artwork is stored and returned
ServerGenerateOk(id) ==
  /\ calls[id] = "sent"
  /\ Len(serverArt) < MaxStore
  /\ calls' = [calls EXCEPT ![id] = Answer(id, "ok")]
  /\ serverArt' = Append(serverArt, id)
  /\ lastClick' = "none"
  /\ UNCHANGED <<selectedStyle, queue, savedImages, nextId, refresh, completed, sinceLoad,
                 svars, kvars, zvars, xvars>>

\* if (data.image) setSavedImages(prev => [data.image, ...prev]); the item leaves
GenerateSucceeded(id) ==
  /\ Settled
  /\ calls[id] = "ok"
  /\ StatusOf(queue, id) = "generating"
  /\ calls' = [calls EXCEPT ![id] = "none"]
  /\ savedImages' = PrependImage(id, savedImages)
  /\ queue' = RemoveItem(queue, id)
  /\ completed' = Append(completed, id)
  /\ sinceLoad' = sinceLoad + 1
  /\ lastClick' = "none"
  /\ UNCHANGED <<selectedStyle, nextId, serverArt, refresh, svars, kvars, zvars, xvars>>

\* POST /api/generate answers with an error and stores nothing:
\* throw new Error(data.error || ...); catch (err): the message goes on the item
GenerateFailed(id) ==
  /\ Settled
  /\ calls[id] = "sent"
  /\ calls' = [calls EXCEPT ![id] = "none"]
  /\ queue' = IF StatusOf(queue, id) = "generating"
                THEN MarkFailed(queue, id, GENERATE_FAILED) ELSE queue
  /\ lastClick' = "none"
  /\ UNCHANGED <<selectedStyle, savedImages, nextId, serverArt, refresh, completed, sinceLoad,
                 svars, kvars, zvars, xvars>>

\* the page gives up on a call that has not answered; the call is not aborted
GenerateTimedOut(id) ==
  /\ Settled
  /\ calls[id] = "sent"
  /\ StatusOf(queue, id) = "generating"
  /\ queue' = MarkFailed(queue, id, ERROR_OCCURRED)
  /\ lastClick' = "none"
  /\ UNCHANGED <<selectedStyle, savedImages, nextId, calls, serverArt, refresh,
                 completed, sinceLoad, svars, kvars, zvars, xvars>>

\* the user dismisses a failed item
Dismiss(id) ==
  /\ Settled
  /\ StatusOf(queue, id) = "failed"
  /\ queue' = RemoveItem(queue, id)
  /\ lastClick' = "dismissed"
  /\ UNCHANGED <<selectedStyle, savedImages, nextId, calls, serverArt, refresh,
                 completed, sinceLoad, svars, kvars, zvars, xvars>>

\* loadSavedImages: fetch('/api/images?t=...'), on mount and on Refresh
LoadSavedImages ==
  /\ Settled
  /\ refresh.phase = "idle"
  /\ refresh' = RefreshSent
  /\ lastClick' = "none"
  /\ UNCHANGED <<selectedStyle, queue, savedImages, nextId, calls, serverArt,
                 completed, sinceLoad, svars, kvars, zvars, xvars>>

\* GET /api/images on the server: 200 with the list, 500 with images: [], or
\* the fetch throws
ServerListImages ==
  /\ refresh.phase = "sent"
  /\ \/ refresh' = RefreshWith("listed", ListOkBody(ServerList))
     \/ \E k \in 1..NumPages(ServerList) :
          refresh' = RefreshWith("listed", ListErrorBody(FetchedBefore(ServerList, k)))
     \/ refresh' = RefreshWith("threw", NoBody)
  /\ lastClick' = "none"
  /\ UNCHANGED <<selectedStyle, queue, savedImages, nextId, calls, serverArt,
                 completed, sinceLoad, svars, kvars, zvars, xvars>>

\* if (data.images): an array, empty or not, is truthy; a missing key is not
DataHasImages == refresh.phase = "listed" /\ refresh.hasImages

\* if (data.images) setSavedImages(data.images); catch: console.error only
LoadSavedImagesDone ==
  /\ Settled
  /\ refresh.phase \in {"listed", "threw"}
  /\ savedImages' = IF DataHasImages THEN refresh.images ELSE savedImages
  /\ sinceLoad' = IF DataHasImages THEN 0 ELSE sinceLoad
  /\ refresh' = RefreshIdle
  /\ lastClick' = "none"
  /\ UNCHANGED <<selectedStyle, queue, nextId, calls, serverArt, completed, svars, kvars, zvars, xvars>>

StoreUnused == store = {} /\ now = 0 /\ resp = NoResp /\ prev = NoResp

\* artworks of earlier sessions, oldest first: the store is one short of full
EarlierArt == [i \in 1..(MaxStore - 1) |-> 0 - i]

\* the page once its gallery has loaded, before any generation
InitQueue ==
  /\ selectedStyle = FALSE
  /\ queue = <<>>
  /\ savedImages = Reverse(EarlierArt)
  /\ nextId = 1
  /\ calls = [i \in 1..MaxGens |-> "none"]
  /\ serverArt = EarlierArt
  /\ refresh = RefreshIdle
  /\ completed = <<>>
  /\ sinceLoad = 0
  /\ lastClick = "none"
  /\ StoreUnused
  /\ KeyUnused
  /\ ZoomUnused
  /\ RoutesUnused

\* the queue while the user leaves the gallery's Refresh alone
NextQueue ==
  \/ SelectStyle
  \/ GenerateRejected
  \/ HandleGenerate
  \/ \E id \in 1..MaxGens : StartGeneration(id)
  \/ \E id \in 1..MaxGens : ServerGenerateOk(id)
  \/ \E id \in 1..MaxGens : GenerateSucceeded(id)
  \/ \E id \in 1..MaxGens : GenerateFailed(id)
  \/ \E id \in 1..MaxGens : GenerateTimedOut(id)
  \/ \E id \in 1..MaxGens : Dismiss(id)

SpecQueue == InitQueue /\ [][NextQueue]_vars

\* the first item id of a session that submits as many generations as the
\* store can hold
FirstGalleryId == MaxGens - MaxStore + 1

\* the page at mount: the gallery is empty and its first load is in flight
InitGallery ==
  /\ selectedStyle = FALSE
  /\ queue = <<>>
  /\ savedImages = <<>>
  /\ nextId = FirstGalleryId
  /\ calls = [i \in 1..MaxGens |-> "none"]
  /\ serverArt = <<>>
  /\ refresh = RefreshSent
  /\ completed = <<>>
  /\ sinceLoad = 0
  /\ lastClick = "none"
  /\ StoreUnused
  /\ KeyUnused
  /\ ZoomUnused
  /\ RoutesUnused

NextGallery ==
  \/ NextQueue
  \/ LoadSavedImages
  \/ ServerListImages
  \/ LoadSavedImagesDone

SpecGallery == InitGallery /\ [][NextGallery]_vars

(***************************************************************************)
(* Claims about the generation queue and the gallery                       *)
(***************************************************************************)
GenIds == 1..MaxGens

Range(q) == {q[i] : i \in 1..Len(q)}

\* no item joins the queue in this step
NothingAdmitted ==
  /\ ItemIds(queue') \subseteq ItemIds(queue)
  /\ nextId' = nextId
  /\ lastClick' # "accepted"

\* the step handles a click on Generate by dropping it: no item, no request
ClickDropped ==
  lastClick' = "rejected" => queue' = queue /\ calls' = calls /\ nextId' = nextId

\* C1: at most MAX_QUEUE (4) items are pending or generating in every
\* reachable state of the page; while 4 are pending or generating no step
\* admits an item, and a rejected click adds no item and sends no request.
C1_AdmissionBound ==
  /\ [](ActiveCount(queue) <= MAX_QUEUE)
  /\ [][/\ ActiveCount(queue) >= MAX_QUEUE => NothingAdmitted
        /\ ClickDropped]_vars

C1_Witness ==
  /\ ActiveCount(queue) = MAX_QUEUE
  /\ selectedStyle
  /\ lastClick = "rejected"

Transitions ==
  { <<"absent", "pending">>, <<"pending", "generating">>, <<"generating", "absent">>,
    <<"generating", "failed">>, <<"failed", "absent">> }

OthersUntouched(id) ==
  \A j \in ItemIds(queue) \ {id} :
    /\ j \in ItemIds(queue')
    /\ ItemOf(queue', j) = ItemOf(queue, j)
    /\ calls'[j] = calls[j]

C4_SuccessPrepends ==
  [][\A id \in GenIds :
       completed' = Append(completed, id)
         => /\ savedImages' = <<id>> \o savedImages
            /\ StatusOf(queue, id) = "generating"
            /\ id \notin ItemIds(queue')
            /\ OthersUntouched(id)]_vars

C4_Witness ==
  /\ sinceLoad = 1
  /\ Len(savedImages) >= 2
  /\ savedImages[1] = completed[Len(completed)]
  /\ queue # <<>>

Departed == {id \in GenIds : id < nextId /\ id \notin ItemIds(queue)}

HandledAt(a) == CHOOSE k \in 1..Len(completed) : completed[k] = a

IsAlnum(c) == c \in LowerChars \cup UpperChars \cup DigitChars

\* the label lowercased, every character outside [A-Za-z0-9] made a space
ClaimStyle(label) ==
  [i \in 1..Len(label) |-> IF IsAlnum(label[i]) THEN ToLowerChar(label[i]) ELSE " "]

Str_dawn_glow == <<"d","a","w","n"," ","g","l","o","w">>

ListAfterSave ==
  /\ resp.op = "list" /\ resp.status = 200
  /\ prev.op = "save" /\ prev.status = 200

WithId(images, id) == SelectSeq(images, LAMBDA r : r.id = id)

WithUrl(images, url) == SelectSeq(images, LAMBDA r : r.url = url)

StoredIds == {DecodeKey(k, now).id : k \in store}

\* the saved id is the id of one stored key only
SavedIdUnique == Cardinality({k \in store : DecodeKey(k, now).id = prev.image.id}) = 1

DistinctIds ==
  LET gone == {prev.deleted} \cup (IF resp.op = "delete" /\ resp.status = 200
                                     THEN {resp.deleted} ELSE {})
  IN /\ \A k1, k2 \in store : DecodeKey(k1, now).id = DecodeKey(k2, now).id => k1 = k2
     /\ gone \cap StoredIds = {}
     /\ (resp.op = "delete" /\ resp.status = 200) => resp.deleted # prev.deleted

\* C10: after a DELETE for an id succeeded, the next list() holds no record
\* with that id, and a second DELETE for the id answers 404.  (Stated for
\* stores whose artworks all have different ids.)
C10_Claim ==
  (prev.op = "delete" /\ prev.status = 200 /\ DistinctIds) =>
    /\ (resp.op = "list" /\ resp.status = 200) =>
         \A i \in 1..Len(resp.images) : resp.images[i].id # prev.reqId
    /\ (resp.op = "delete" /\ resp.reqId = prev.reqId /\ resp.status # 500) =>
         resp.status = 404

\* C11: a DELETE answers 404 only when no stored pathname contains the id,
\* however many listing pages the stored pathnames span.
C11_Claim ==
  (resp.op = "delete" /\ resp.status = 404) =>
    \A pathname \in store : ~Includes(pathname, resp.reqId)

(***************************************************************************)
(* GET /api/images over large stores                                       *)
(***************************************************************************)
\* how far past LIST_CAP the stores go
MaxOver == 1

\* a key of the blob store that is no artwork
Str_notes_txt == PREFIX \o <<"n","o","t","e","s",".","t","x","t">>

\* a .png key that does not follow the grammar: its timestamp is no number
Str_x_png == PREFIX \o <<"x">> \o PNG

ForeignKeys == {Str_notes_txt, Str_x_png}

\* the key POST composes for an artwork saved without a style at time ts
ArtKey(ts) == EncodeKey(Str_deadbeef, SafeStyle(<<>>), ts)

\* numbers of artworks in the stores: few, and around LIST_CAP
StoreSizes == (0..(MaxOver + 1)) \cup ((LIST_CAP - 1)..(LIST_CAP + MaxOver))

\* the first timestamps of the stores: the run crosses a digit boundary
FirstTimes == {1, 8}

\* the artworks saved at first, first + 1, ...
ArtRun(first, n) == [i \in 1..n |-> ArtKey(first + i - 1)]

\* the same pathnames, the first one moved to the end
Rotate(l) == IF Len(l) < 2 THEN l ELSE SubSeq(l, 2, Len(l)) \o <<l[1]>>

\* orders in which the service enumerates a large store
OrdersOf(l) == {l, Reverse(l), Rotate(l)}

SetToSeqs(S) == Listings(S)

\* the listings the service can return for the stores of SpecList
BigListings ==
  UNION { UNION { { f \o o : o \in OrdersOf(ArtRun(first, n)) } : f \in SetToSeqs(F) }
          : first \in FirstTimes, n \in StoreSizes, F \in SUBSET ForeignKeys }

\* GET over a store too large to enumerate every order of
GETOrdered ==
  /\ \E l \in BigListings :
       /\ Range(l) = store
       /\ resp' = [NoResp EXCEPT !.op = "list", !.status = 200,
                                 !.images = ImagesOf(FetchAllBlobs(l, 0), now)]
  /\ prev' = Brief(resp)
  /\ UNCHANGED <<store, now, kvars, zvars, cvars, xvars>>

InitList ==
  /\ \E first \in FirstTimes, n \in StoreSizes, F \in SUBSET ForeignKeys :
       store = Range(ArtRun(first, n)) \cup F
  /\ now = 50
  /\ resp = NoResp
  /\ prev = NoResp
  /\ KeyUnused
  /\ ZoomUnused
  /\ PageUnused
  /\ RoutesUnused

\* GET over a large store: a list() call throws
GETOrderedError == \E l \in BigListings : Range(l) = store /\ GETFailed(l)

NextList == GETOrdered \/ GETOrderedError

SpecList == InitList /\ [][NextList]_vars

\* the stored pathnames GET makes records of
PngKeys == {pathname \in store : EndsWith(pathname, PNG)}

\* the creation time GET reconstructs for a pathname
CreatedAtOf(pathname) == CreatedAtMillis(DecodeKey(pathname, now).timestamp, now)

ListedUrls == {resp.images[i].url : i \in 1..Len(resp.images)}

\* C12: a 200 response of GET holds one record per listed pathname, all of
\* them stored pathnames ending in .png, newest first, LIST_CAP (100) at
\* most and as many as there are up to that cap, and no stored .png pathname
\* left out is newer than a listed one, whatever the number of listing pages.
C12_ListRecent ==
  (resp.op = "list" /\ resp.status = 200) =>
    /\ ListedUrls \subseteq PngKeys
    /\ Cardinality(ListedUrls) = Len(resp.images)
    /\ Len(resp.images) = Min(Cardinality(PngKeys), LIST_CAP)
    /\ \A i \in 1..Len(resp.images) :
         resp.images[i].createdAt = CreatedAtOf(resp.images[i].url)
    /\ \A i, j \in 1..Len(resp.images) :
         i < j => resp.images[i].createdAt >= resp.images[j].createdAt
    /\ \A pathname \in PngKeys \ ListedUrls :
         \A i \in 1..Len(resp.images) : resp.images[i].createdAt >= CreatedAtOf(pathname)

C12_Witness ==
  /\ resp.op = "list" /\ resp.status = 200
  /\ Len(resp.images) = LIST_CAP
  /\ Cardinality(PngKeys) > LIST_CAP
  /\ Str_notes_txt \in store
  /\ Str_x_png \in ListedUrls
  /\ PageLimit < LIST_CAP

(***************************************************************************)
(* The listing and the gallery                                             *)
(***************************************************************************)
\* the page holds the body of a failed listing and is about to handle it
FailedListingHeld == refresh.phase = "listed" /\ refresh.status = 500

\* C13: every answer of the listing carries an images list; a listing that
\* failed at any page answers 500 with the empty list, never with the part
\* listed before the failure, and the gallery then shows that empty list.
C13_FailedListingIsEmpty ==
  /\ [](refresh.phase = "listed" => refresh.hasImages)
  /\ [](FailedListingHeld => refresh.images = <<>>)
  /\ [][FailedListingHeld /\ refresh'.phase = "idle" => savedImages' = <<>>]_vars

\* a listing failed while the store held artworks on several pages and the
\* gallery showed some
C13_Witness ==
  /\ FailedListingHeld
  /\ NumPages(ServerList) > 1
  /\ savedImages # <<>>

(***************************************************************************)
(* POST /api/generate and POST /api/edit                                   *)
(***************************************************************************)
TARGET_WIDTH == 3840

TARGET_HEIGHT == 2160

\* most artworks the routes store in one run
MaxBlobs == 1

\* a body field as the routes test it: absent, the empty string, or a value
Fields == {"absent", "empty", "given"}

\* !field
Falsy(f) == f \in {"absent", "empty"}

\* the text call: fetch threw, a non-2xx status, a body that is not JSON, no
\* candidate, a candidate of white space only, a candidate with text
CraftOutcomes == {"threw", "notOk", "unparseable", "noCandidate", "blank", "text"}

\* non-2xx statuses of the provider
UpstreamStatuses == {429, 503}

\* an image that cannot be decoded
Undecodable == <<0, 0>>

\* width and height of the images the provider returns
RawSizes == {<<3840, 2160>>, <<1024, 1024>>, <<1376, 768>>}

\* the image call: fetch threw, a non-2xx status, a body that is not JSON, a
\* body without an image part, a body with an image
SynthOutcomes ==
  [kind : {"threw", "unparseable", "noImage"}, status : {200}, size : {Undecodable}]
    \cup [kind : {"notOk"}, status : UpstreamStatuses, size : {Undecodable}]
    \cup [kind : {"image"}, status : {200}, size : RawSizes \cup {Undecodable}]

\* fetch(imageUrl): threw (the host cannot be reached), a non-2xx status, the bytes
SourceOutcomes == {"threw", "notOk", "ok"}

\* the texts of the answers (error, details) and of the errors the calls throw:
\* FetchThrew is the TypeError of a fetch that cannot reach its host,
\* UpstreamBody the provider's error body, Unsupported what sharp throws on
\* bytes it cannot decode, PutThrew what put throws
Msg ==
  [ StyleRequired   |-> <<"Style", "is", "required">>,
    FieldsRequired  |-> <<"Image", "URL", "and", "edit", "instruction", "are", "required">>,
    NoApiKey        |-> <<"API", "key", "not", "configured">>,
    Internal        |-> <<"Internal", "server", "error">>,
    GenerateFailed  |-> <<"Failed", "to", "generate", "image">>,
    NoImage         |-> <<"No", "image", "generated">>,
    NoImageDetails  |-> <<"Model", "did", "not", "return", "an", "image">>,
    EditFailed      |-> <<"Failed", "to", "edit", "image">>,
    EditFailedShort |-> <<"Edit", "failed">>,
    NoEditedImage   |-> <<"Model", "did", "not", "return", "an", "edited", "image">>,
    SourceNotOk     |-> <<"Failed", "to", "fetch", "original", "image">>,
    FetchThrew      |-> <<"fetch", "failed">>,
    UpstreamBody    |-> <<"upstream", "error", "body">>,
    Unsupported     |-> <<"Input", "buffer", "contains", "unsupported", "image", "format">>,
    PutThrew        |-> <<"Vercel", "Blob", "request", "failed">> ]

\* a route that makes the call of a failed stage once more before it answers
RouteAnswer_Retried(status, error, details, made, size) ==
  [status |-> status, error |-> error, details |-> details,
   calls |-> IF status >= 500 /\ made # <<>> THEN Append(made, made[Len(made)]) ELSE made,
   size |-> size, stored |-> FALSE]

\* NextResponse.json(body, { status }), with the outbound calls made before it,
\* the size of the image the route hands on and whether it wrote that image to
\* blob storage
RouteAnswer(status, error, details, made, size) ==
  [status |-> status, error |-> error, details |-> details, calls |-> made,
   size |-> size, stored |-> FALSE]

\* the answer of a route that wrote the image
StoredAnswer(a) == [a EXCEPT !.stored = TRUE]

\* a route that never looks at the credential
HasCredential_Unchecked(key) == TRUE

\* const apiKey = process.env.GEMINI_API_KEY; if (!apiKey) ...
HasCredential(key) == key

\* a route that does not trim the candidate
HasCraftedPrompt_NoTrim(craft) == craft \in {"text", "blank"}

\* candidates?.[0]?.content?.parts?.[0]?.text?.trim() is not empty, read from a
\* response that was ok and parsed
HasCraftedPrompt(craft) == craft = "text"

\* { status: response.status }
UpstreamFailureStatus(synth) == synth.status

\* POST /api/generate
GenerateRoute(style, key, craft, synth) ==
  IF Falsy(style)
    THEN RouteAnswer(400, Msg.StyleRequired, <<>>, <<>>, Undecodable)
  ELSE IF ~HasCredential(key)
    THEN RouteAnswer(500, Msg.NoApiKey, <<>>, <<>>, Undecodable)
  ELSE IF ~HasCraftedPrompt(craft)
    THEN RouteAnswer(500, Msg.Internal, <<>>, <<"craft">>, Undecodable)
  ELSE IF synth.kind \in {"threw", "unparseable"}
    THEN RouteAnswer(500, Msg.Internal, <<>>, <<"craft", "synth">>, Undecodable)
  ELSE IF synth.kind = "notOk"
    THEN RouteAnswer(UpstreamFailureStatus(synth), Msg.GenerateFailed, Msg.UpstreamBody,
                     <<"craft", "synth">>, Undecodable)
  ELSE IF synth.kind = "noImage"
    THEN RouteAnswer(500, Msg.NoImage, Msg.NoImageDetails, <<"craft", "synth">>,
                     Undecodable)
  ELSE RouteAnswer(200, <<>>, <<>>, <<"craft", "synth">>, synth.size)

CeilDiv(a, b) == (a + b - 1) \div b

\* fit: 'cover': the least uniform scale at which the image covers the target box
CoverScale(size) ==
  IF TARGET_WIDTH * size[2] >= TARGET_HEIGHT * size[1]
    THEN <<TARGET_WIDTH, CeilDiv(size[2] * TARGET_WIDTH, size[1])>>
    ELSE <<CeilDiv(size[1] * TARGET_HEIGHT, size[2]), TARGET_HEIGHT>>

\* position: 'center': what sticks out of the target box is cut off
CropCenter(size) == <<Min(size[1], TARGET_WIDTH), Min(size[2], TARGET_HEIGHT)>>

\* sharp(buffer).resize(TARGET_WIDTH, TARGET_HEIGHT, { fit: 'cover', position: 'center' })
Resize(size) == CropCenter(CoverScale(size))

\* a route that answers 500 after a write that went through
SaveEdited_AnswerAfterWrite(size, put) ==
  StoredAnswer(RouteAnswer(IF put THEN 200 ELSE 500, Msg.EditFailed, Msg.PutThrew,
                           <<"source", "synth", "put">>, size))

\* const blob = await put(filename, resizedBuffer, ...); return { image }:
\* put tells whether the write to blob storage succeeds
SaveEdited(size, put) ==
  IF ~put
    THEN RouteAnswer(500, Msg.EditFailed, Msg.PutThrew, <<"source", "synth", "put">>,
                     Undecodable)
    ELSE StoredAnswer(RouteAnswer(200, <<>>, <<>>, <<"source", "synth", "put">>, size))

\* POST /api/edit
EditRoute(imageUrl, editInstruction, key, source, synth, put) ==
  IF Falsy(imageUrl) \/ Falsy(editInstruction)
    THEN RouteAnswer(400, Msg.FieldsRequired, <<>>, <<>>, Undecodable)
  ELSE IF ~HasCredential(key)
    THEN RouteAnswer(500, Msg.NoApiKey, <<>>, <<>>, Undecodable)
  ELSE IF source = "threw"
    THEN RouteAnswer(500, Msg.EditFailed, Msg.FetchThrew, <<"source">>, Undecodable)
  ELSE IF source = "notOk"
    THEN RouteAnswer(500, Msg.EditFailed, Msg.SourceNotOk, <<"source">>, Undecodable)
  ELSE IF synth.kind = "threw"
    THEN RouteAnswer(500, Msg.EditFailed, Msg.FetchThrew, <<"source", "synth">>,
                     Undecodable)
  ELSE IF synth.kind = "notOk"
    THEN RouteAnswer(UpstreamFailureStatus(synth), Msg.EditFailed, Msg.UpstreamBody,
                     <<"source", "synth">>, Undecodable)
  ELSE IF synth.kind = "unparseable"
    THEN RouteAnswer(500, Msg.EditFailedShort, Msg.UpstreamBody, <<"source", "synth">>,
                     Undecodable)
  ELSE IF synth.kind = "noImage"
    THEN RouteAnswer(500, Msg.EditFailedShort, Msg.NoEditedImage, <<"source", "synth">>,
                     Undecodable)
  ELSE IF synth.size = Undecodable
    THEN RouteAnswer(500, Msg.EditFailed, Msg.Unsupported, <<"source", "synth">>,
                     Undecodable)
  ELSE SaveEdited(Resize(synth.size), put)

\* an artwork in blob storage: its url, the size of the image, the route that put it
Blob(url, size, via) == [url |-> url, size |-> size, via |-> via]

\* blob storage after put: one more artwork
PutBlob(stored, size, via) == Append(stored, Blob(Len(stored) + 1, size, via))

\* the route made this outbound call before it answered
Made(a, call) == call \in Range(a.calls)

\* the answer as the model keeps it, with the request and the outcomes of the
\* calls the route made
Kept(op, a, fields, craft, source, synth, put, image) ==
  [op |-> op, status |-> a.status, error |-> a.error, details |-> a.details,
   calls |-> a.calls, image |-> image, fields |-> fields,
   craft  |-> IF Made(a, "craft") THEN craft ELSE "none",
   source |-> IF Made(a, "source") THEN source ELSE "none",
   synth  |-> IF Made(a, "synth") THEN synth ELSE NoSynth,
   put    |-> Made(a, "put") /\ put]

\* an outcome is drawn only for the calls the route makes
OnlyMade(a, craft, source, synth, put) ==
  /\ Made(a, "craft") \/ craft = "text"
  /\ Made(a, "source") \/ source = "ok"
  /\ Made(a, "synth") \/ synth = [kind |-> "image", status |-> 200, size |-> Undecodable]
  /\ Made(a, "put") \/ put

\* a client of the API calls POST /api/generate
PostGenerate ==
  /\ \E style \in Fields, craft \in CraftOutcomes, synth \in SynthOutcomes :
       LET a == GenerateRoute(style, apiKey, craft, synth)
       IN /\ OnlyMade(a, craft, "ok", synth, TRUE)
          /\ rresp' = Kept("generate", a, ~Falsy(style), craft, "none", synth, FALSE, 0)
  /\ UNCHANGED <<apiKey, artBlobs, viewer, edits, single, svars, kvars, zvars, cvars>>

\* a client of the API calls POST /api/edit
PostEdit ==
  /\ \E imageUrl \in Fields, editInstruction \in Fields, source \in SourceOutcomes,
        synth \in SynthOutcomes, put \in BOOLEAN :
       LET a == EditRoute(imageUrl, editInstruction, apiKey, source, synth, put)
       IN /\ OnlyMade(a, "text", source, synth, put)
          /\ a.stored => Len(artBlobs) < MaxBlobs
          /\ artBlobs' = IF a.stored THEN PutBlob(artBlobs, a.size, "edit") ELSE artBlobs
          /\ rresp' = Kept("edit", a, ~Falsy(imageUrl) /\ ~Falsy(editInstruction),
                           "none", source, synth, put,
                           IF a.stored THEN Len(artBlobs) + 1 ELSE 0)
  /\ UNCHANGED <<apiKey, viewer, edits, single, svars, kvars, zvars, cvars>>

\* POST /api/images: the image as it came, put under a new key
SaveRoute(imageBase64, size, put) ==
  IF Falsy(imageBase64)
    THEN RouteAnswer(400, <<"Image", "data", "is", "required">>, <<>>, <<>>, Undecodable)
  ELSE IF ~put
    THEN RouteAnswer(500, <<"Failed", "to", "save", "image">>, <<>>, <<"put">>, Undecodable)
  ELSE StoredAnswer(RouteAnswer(200, <<>>, <<>>, <<"put">>, size))

(***************************************************************************)
(* page.tsx: one generation at a time, saved by the page                   *)
(***************************************************************************)
\* handleGenerate up to the fetch of /api/generate
SingleGenerate ==
  /\ ~single.isGenerating
  /\ single' = [isGenerating |-> TRUE, phase |-> "generating", size |-> Undecodable,
                error |-> <<>>]
  /\ UNCHANGED <<apiKey, artBlobs, rresp, viewer, edits, svars, kvars, zvars, cvars>>

\* /api/generate answers and handleGenerate goes on: an answer that is not ok
\* is thrown and shown; otherwise the image is sent to /api/images
SingleGenerated ==
  /\ single.phase = "generating"
  /\ \E craft \in CraftOutcomes, synth \in SynthOutcomes :
       LET a == GenerateRoute("given", apiKey, craft, synth)
           ok == a.status \in 200..299
       IN /\ OnlyMade(a, craft, "ok", synth, TRUE)
          /\ rresp' = Kept("generate", a, TRUE, craft, "none", synth, FALSE, 0)
          /\ single' = IF ok
                         THEN [single EXCEPT !.phase = "saving", !.size = a.size]
                         ELSE [SingleIdle EXCEPT !.error = a.error]
  /\ UNCHANGED <<apiKey, artBlobs, viewer, edits, svars, kvars, zvars, cvars>>

\* /api/images answers and handleGenerate ends
SingleSaved ==
  /\ single.phase = "saving"
  /\ \E put \in BOOLEAN :
       LET a == SaveRoute("given", single.size, put)
       IN /\ a.stored => Len(artBlobs) < MaxBlobs
          /\ artBlobs' = IF a.stored THEN PutBlob(artBlobs, a.size, "save") ELSE artBlobs
          /\ rresp' = Kept("save", a, TRUE, "none", "none", NoSynth, put,
                           IF a.stored THEN Len(artBlobs) + 1 ELSE 0)
  /\ single' = SingleIdle
  /\ UNCHANGED <<apiKey, viewer, edits, svars, kvars, zvars, cvars>>

InitRoutes ==
  /\ apiKey \in BOOLEAN
  /\ artBlobs = <<>>
  /\ rresp = NoRouteResp
  /\ viewer = ViewerClosed
  /\ edits = <<>>
  /\ single = SingleIdle
  /\ StoreUnused
  /\ KeyUnused
  /\ ZoomUnused
  /\ PageUnused

NextRoutes ==
  \/ PostGenerate \/ PostEdit
  \/ SingleGenerate \/ SingleGenerated \/ SingleSaved

SpecRoutes == InitRoutes /\ [][NextRoutes]_vars

(***************************************************************************)
(* The routes: validation, stages, failures                                *)
(***************************************************************************)
\* the last answer is one of POST /api/generate or POST /api/edit
RouteAnswered == rresp.op \in {"generate", "edit"}

\* C14 as stated: a missing required field yields 400, and an absent credential
\* yields 500 with no outbound call made.
C14_Claim ==
  RouteAnswered =>
    /\ ~rresp.fields => rresp.status = 400
    /\ ~apiKey => rresp.status = 500 /\ rresp.calls = <<>>

\* C14: a missing required field yields 400 whether or not the credential is
\* set; with the required fields there, an absent credential yields 500; in
\* both cases no outbound call is made and nothing is stored.
C14_FieldsThenCredential ==
  RouteAnswered =>
    /\ ~rresp.fields => rresp.status = 400 /\ rresp.calls = <<>> /\ rresp.image = 0
    /\ rresp.fields /\ ~apiKey =>
         /\ rresp.status = 500 /\ rresp.error = Msg.NoApiKey
         /\ rresp.calls = <<>> /\ rresp.image = 0

\* an edit with both fields was refused for want of the credential
C14_Witness ==
  /\ rresp.op = "edit" /\ rresp.fields /\ ~apiKey
  /\ rresp.status = 500

\* C15: the image call of a generation is made only after the text call
\* returned text that is not empty; a text call that fails or returns blank
\* text is the last call of the request, which ends in an error answer.
C15_CraftBeforeSynth ==
  rresp.op = "generate" =>
    /\ Made(rresp, "synth") => rresp.calls = <<"craft", "synth">> /\ rresp.craft = "text"
    /\ (Made(rresp, "craft") /\ rresp.craft # "text") =>
         /\ rresp.calls = <<"craft">>
         /\ rresp.status >= 400

\* the text call returned white space only
C15_Witness ==
  /\ rresp.op = "generate" /\ rresp.craft = "blank"
  /\ rresp.status = 500

\* one of the words is "fetch"
MentionsFetch(words) == \E i \in 1..Len(words) : words[i] = "fetch"

\* C16: blob storage changes only in a step whose answer is a success, so a
\* request that ends in an error has written nothing; an edit whose source
\* image cannot be fetched answers 500, mentions the fetch and makes no write.
C16_ErrorWritesNothing ==
  /\ [][artBlobs' # artBlobs => rresp'.status \in 200..299]_vars
  /\ [](rresp.op = "edit" /\ rresp.source \in {"threw", "notOk"} =>
          /\ rresp.status = 500
          /\ MentionsFetch(rresp.error) \/ MentionsFetch(rresp.details)
          /\ ~Made(rresp, "put") /\ rresp.image = 0)

\* blob storage holds an artwork and an edit could not reach its source image
C16_Witness ==
  /\ rresp.op = "edit" /\ rresp.source = "threw" /\ rresp.status = 500
  /\ artBlobs # <<>>

\* C17 as stated: when the provider answers the image call with a non-2xx
\* status or a body that cannot be parsed, the route answers 500.
C17_Claim ==
  (RouteAnswered /\ rresp.synth.kind \in {"notOk", "unparseable"}) =>
    rresp.status = 500

\* C18 as stated: every artwork in blob storage is 3840 by 2160.
C18_Claim ==
  \A i \in 1..Len(artBlobs) : artBlobs[i].size = <<TARGET_WIDTH, TARGET_HEIGHT>>

(***************************************************************************)
(* ImageDetailView: the conversational edit                                *)
(***************************************************************************)
\* most instructions the user submits in one detail view
MaxEdits == 3

\* what the user can have typed: nothing, a blank, an instruction with a blank
\* before or after it
EditInputs == {<<>>, <<" ">>, <<" ", "a">>, <<"a", " ">>}

\* String.prototype.trim
RECURSIVE Trim(_)
Trim(s) ==
  IF Len(s) = 0 THEN s
  ELSE IF Head(s) = " " THEN Trim(Tail(s))
  ELSE IF s[Len(s)] = " " THEN Trim(SubSeq(s, 1, Len(s) - 1))
  ELSE s

\* a handler that looks at the input only
CanEdit_IgnoreEditing(editInput, isEditing) == Trim(editInput) # <<>>

\* if (!editInput.trim() || isEditing) return
CanEdit(editInput, isEditing) == Trim(editInput) # <<>> /\ ~isEditing

\* a viewer that sends the image it was opened on
SentImageUrl_Opened(v) == v.opened

\* imageUrl: currentImage.url
SentImageUrl(v) == v.currentImage

\* { role: 'user', content: instruction }
UserMessage(instruction) ==
  [role |-> "user", content |-> instruction, imageUrl |-> 0]

\* { role: 'assistant', content: "Here's the edited image:", imageUrl }
ImageMessage(url) ==
  [role |-> "assistant", content |-> <<"Here's", "the", "edited", "image:">>,
   imageUrl |-> url]

\* { role: 'assistant', content: `Edit failed: ${message}` }
ErrorMessage(message) ==
  [role |-> "assistant", content |-> <<"Edit", "failed:">> \o message, imageUrl |-> 0]

\* the page variables a detail view leaves alone
pageButClick ==
  <<selectedStyle, queue, nextId, calls, serverArt, refresh, completed, sinceLoad>>

\* handleEdit up to the fetch of /api/edit
HandleEdit ==
  /\ viewer.opened # 0
  /\ Len(viewer.editMessages) + Len(edits) < 2 * MaxEdits
  /\ \E editInput \in EditInputs :
       /\ CanEdit(editInput, viewer.isEditing)
       /\ viewer' = [viewer EXCEPT
            !.isEditing = TRUE,
            !.editMessages = Append(@, UserMessage(Trim(editInput)))]
       /\ edits' = Append(edits, [imageUrl |-> SentImageUrl(viewer),
                                  instruction |-> Trim(editInput), phase |-> "sent",
                                  status |-> 0, image |-> 0, error |-> <<>>,
                                  mount |-> viewer.mount])
  /\ lastClick' = "accepted"
  /\ UNCHANGED <<apiKey, artBlobs, rresp, single, savedImages, pageButClick, svars, kvars, zvars>>

\* handleEdit returns at its first line
HandleEditRejected ==
  /\ viewer.opened # 0
  /\ \E editInput \in EditInputs : ~CanEdit(editInput, viewer.isEditing)
  /\ lastClick' = "dropped"
  /\ UNCHANGED <<xvars, savedImages, pageButClick, svars, kvars, zvars>>

\* /api/edit answers the i-th call in flight
EditServed(i) ==
  /\ edits[i].phase = "sent"
  /\ \E source \in SourceOutcomes, synth \in SynthOutcomes, put \in BOOLEAN :
       LET a == EditRoute("given", "given", apiKey, source, synth, put)
           url == IF a.stored THEN Len(artBlobs) + 1 ELSE 0
       IN /\ OnlyMade(a, "text", source, synth, put)
          /\ artBlobs' = IF a.stored THEN PutBlob(artBlobs, a.size, "edit") ELSE artBlobs
          /\ rresp' = Kept("edit", a, TRUE, "none", source, synth, put, url)
          /\ edits' = [edits EXCEPT ![i] = [@ EXCEPT !.phase = "answered",
                         !.status = a.status, !.image = url, !.error = a.error]]
  /\ lastClick' = "none"
  /\ UNCHANGED <<apiKey, viewer, single, savedImages, pageButClick, svars, kvars, zvars>>

\* the fetch of the i-th call throws, or its answer is no JSON
EditThrew(i) ==
  /\ edits[i].phase = "sent"
  /\ edits' = [edits EXCEPT ![i] = [@ EXCEPT !.phase = "threw", !.error = Msg.FetchThrew]]
  /\ lastClick' = "none"
  /\ UNCHANGED <<apiKey, artBlobs, rresp, viewer, single, savedImages, pageButClick,
                 svars, kvars, zvars>>

\* the rest of the sequence without its i-th element
WithoutAt(s, i) == SubSeq(s, 1, i - 1) \o SubSeq(s, i + 1, Len(s))

\* data.error || 'Failed to edit image'
ThrownMessage(e) == IF e.error = <<>> THEN Msg.EditFailed ELSE e.error

\* a detail view whose state setters reach whatever view is mounted
StillMounted_Any(e, v) == v.opened # 0

\* the state setters of handleEdit belong to the detail view that made the call:
\* once that view is unmounted they change nothing
StillMounted(e, v) == v.opened # 0 /\ e.mount = v.mount

\* handleEdit after the fetch: the answer, the catch, the finally;
\* onImageEdited is the page's handleImageEdited, which prepends to the gallery
HandleEditDone(i) ==
  /\ edits[i].phase \in {"answered", "threw"}
  /\ LET e == edits[i]
         ok == e.phase = "answered" /\ e.status \in 200..299
     IN /\ viewer' = IF ~StillMounted(e, viewer) THEN viewer
                     ELSE [viewer EXCEPT
              !.isEditing = FALSE,
              !.currentImage = IF ok /\ e.image # 0 THEN e.image ELSE @,
              !.editMessages =
                 IF ~ok THEN Append(@, ErrorMessage(ThrownMessage(e)))
                 ELSE IF e.image # 0 THEN Append(@, ImageMessage(e.image))
                 ELSE @]
        /\ savedImages' = IF ok /\ e.image # 0 THEN <<e.image>> \o savedImages
                          ELSE savedImages
  /\ edits' = WithoutAt(edits, i)
  /\ lastClick' = "none"
  /\ UNCHANGED <<apiKey, artBlobs, rresp, single, pageButClick, svars, kvars, zvars>>

\* the detail view is open on the one artwork in blob storage
InitViewer ==
  /\ apiKey \in BOOLEAN
  /\ artBlobs = <<Blob(1, <<TARGET_WIDTH, TARGET_HEIGHT>>, "save")>>
  /\ rresp = NoRouteResp
  /\ viewer = [opened |-> 1, currentImage |-> 1, editMessages |-> <<>>,
               isEditing |-> FALSE, mount |-> 1]
  /\ edits = <<>>
  /\ single = SingleIdle
  /\ selectedStyle = FALSE /\ queue = <<>> /\ savedImages = <<1>> /\ nextId = 1
  /\ calls = <<>> /\ serverArt = <<>> /\ refresh = RefreshIdle
  /\ completed = <<>> /\ sinceLoad = 0 /\ lastClick = "none"
  /\ StoreUnused
  /\ KeyUnused
  /\ ZoomUnused

NextViewer ==
  \/ HandleEdit \/ HandleEditRejected
  \/ \E i \in 1..Len(edits) : EditServed(i)
  \/ \E i \in 1..Len(edits) : EditThrew(i)
  \/ \E i \in 1..Len(edits) : HandleEditDone(i)

SpecViewer == InitViewer /\ [][NextViewer]_vars

(***************************************************************************)
(* The edit conversation                                                   *)
(***************************************************************************)
\* the image of the last assistant message that carries one, or the artwork
\* the view was opened on
LastEditedImage(v) ==
  LET withImage == {i \in 1..Len(v.editMessages) : v.editMessages[i].imageUrl # 0}
  IN IF withImage = {} THEN v.opened
     ELSE v.editMessages[CHOOSE i \in withImage : \A j \in withImage : j <= i].imageUrl

\* C19: every edit in flight was sent with the url of the image the view
\* displays; that image is the result of the most recent edit that succeeded,
\* or the opened artwork when none has, so a failed edit leaves it as it was.
C19_EditsChain ==
  /\ \A i \in 1..Len(edits) : edits[i].imageUrl = viewer.currentImage
  /\ viewer.currentImage = LastEditedImage(viewer)
  /\ viewer.currentImage # viewer.opened =>
       /\ viewer.currentImage \in 1..Len(artBlobs)
       /\ artBlobs[viewer.currentImage].via = "edit"

\* after an edit that succeeded and one that failed, the next edit is in flight
\* with the result of the one that succeeded
C19_Witness ==
  /\ Len(edits) = 1
  /\ edits[1].imageUrl # viewer.opened
  /\ \E i \in 1..Len(viewer.editMessages) :
       /\ viewer.editMessages[i].role = "assistant"
       /\ viewer.editMessages[i].imageUrl = 0

\* the step resolves an edit: its call leaves the calls in flight
Resolves == Len(edits') < Len(edits)

\* the message the step appends
Appended == viewer'.editMessages[Len(viewer'.editMessages)]

\* C20: the messages alternate, a user message for each instruction taken and
\* an assistant message for each edit resolved, with the image on success and
\* the error text and no image on failure; at most one edit is in flight, and
\* the editing flag is set exactly while it is.
C20_OneTurnPerEdit ==
  /\ [](Len(edits) <= 1)
  /\ [](viewer.isEditing <=> edits # <<>>)
  /\ [](\A i \in 1..Len(viewer.editMessages) :
          viewer.editMessages[i].role = IF i % 2 = 1 THEN "user" ELSE "assistant")
  /\ [](Len(viewer.editMessages) % 2 = 1 <=> viewer.isEditing)
  /\ [][lastClick' = "accepted" =>
          /\ viewer'.editMessages = Append(viewer.editMessages, Appended)
          /\ Appended.role = "user" /\ Appended.content # <<>>]_vars
  /\ [][lastClick' = "dropped" => viewer' = viewer /\ edits' = edits]_vars
  /\ [][Resolves =>
          /\ viewer'.editMessages = Append(viewer.editMessages, Appended)
          /\ Appended.role = "assistant"
          /\ ~viewer'.isEditing
          /\ \A i \in 1..Len(edits) :
               edits'  = WithoutAt(edits, i) =>
                 IF edits[i].phase = "answered" /\ edits[i].status = 200
                   THEN Appended = ImageMessage(edits[i].image) /\ edits[i].image # 0
                   ELSE /\ Appended.imageUrl = 0
                        /\ SubSeq(Appended.content, 1, 2) = <<"Edit", "failed:">>
                        /\ Len(Appended.content) > 2]_vars

\* an edit failed, its error is the last message and the view takes instructions
\* again
C20_Witness ==
  /\ Len(viewer.editMessages) = 2 * MaxEdits
  /\ viewer.editMessages[Len(viewer.editMessages)].imageUrl = 0
  /\ viewer.editMessages[2].imageUrl # 0
  /\ ~viewer.isEditing

(***************************************************************************)
(* The page around the detail view: back, and another artwork opened       *)
(***************************************************************************)
\* most detail views the user opens in one session
MaxMounts == 2

\* onBack: setSelectedImage(null), the detail view is unmounted
Back ==
  /\ viewer.opened # 0
  /\ viewer' = [ViewerClosed EXCEPT !.mount = viewer.mount]
  /\ lastClick' = "none"
  /\ UNCHANGED <<apiKey, artBlobs, rresp, edits, single, savedImages, pageButClick,
                 svars, kvars, zvars>>

\* handleSelectLibraryImage: a gallery entry is clicked and a detail view is
\* mounted on it
SelectLibraryImage ==
  /\ viewer.opened = 0
  /\ viewer.mount < MaxMounts
  /\ \E k \in 1..Len(savedImages) :
       viewer' = [opened |-> savedImages[k], currentImage |-> savedImages[k],
                  editMessages |-> <<>>, isEditing |-> FALSE,
                  mount |-> viewer.mount + 1]
  /\ lastClick' = "none"
  /\ UNCHANGED <<apiKey, artBlobs, rresp, edits, single, savedImages, pageButClick,
                 svars, kvars, zvars>>

\* a session of detail views in which each view sends its first edit, which
\* may still be in flight when the view is left and the next one is opened
NextReopen ==
  \/ HandleEdit /\ viewer.editMessages = <<>>
  \/ \E i \in 1..Len(edits) : EditServed(i)
  \/ \E i \in 1..Len(edits) : EditThrew(i)
  \/ \E i \in 1..Len(edits) : HandleEditDone(i)
  \/ Back
  \/ SelectLibraryImage

SpecReopen == InitViewer /\ [][NextReopen]_vars

\* the step resolves an edit that the mounted detail view did not send
ResolvesStale ==
  \E i \in 1..Len(edits) :
    /\ edits' = WithoutAt(edits, i)
    /\ edits[i].phase # "sent"
    /\ ~(viewer.opened # 0 /\ edits[i].mount = viewer.mount)

\* C21: a detail view opened on another artwork starts with an empty
\* conversation and that artwork as its current image, and an edit sent by an
\* earlier detail view changes neither when it resolves.
C21_ResetOnChange ==
  /\ [][viewer'.mount # viewer.mount =>
          /\ viewer'.editMessages = <<>>
          /\ viewer'.currentImage = viewer'.opened
          /\ ~viewer'.isEditing]_vars
  /\ [][ResolvesStale => viewer' = viewer]_vars
  /\ [](viewer.opened # 0 /\ ~(\E i \in 1..Len(edits) : edits[i].mount = viewer.mount)
          => viewer.currentImage = LastEditedImage(viewer) /\ ~viewer.isEditing)

\* a second detail view is open, with an empty conversation, and the edit the
\* first one sent has been answered with an image and is not yet handled
C21_Witness ==
  /\ viewer.mount = 2 /\ viewer.opened # 0
  /\ viewer.editMessages = <<>>
  /\ \E i \in 1..Len(edits) :
       edits[i].mount = 1 /\ edits[i].phase = "answered" /\ edits[i].image # 0

(***************************************************************************)
(* The canvas of the detail view: zoom, pan, pinch, reset                  *)
(* src/src/components/ImageDetailView.tsx. Scales are in hundredths and    *)
(* lengths in pixels; a quotient is cut to a whole number of them.         *)
(***************************************************************************)
MIN_SCALE == 10
MAX_SCALE == 500

\* the two floating-point values that are no finite number
Infinity == 1000000000
NotANumber == -1000000000

\* a * (num / den) in floating point, for a finite or NaN and a positive if finite
ScaleBy(a, num, den) ==
  IF a = NotANumber THEN NotANumber
  ELSE IF den = 0 THEN (IF num = 0 THEN NotANumber ELSE Infinity)
  ELSE (a * num) \div den

\* Math.max and Math.min: NaN if either argument is NaN
MathMax(a, b) ==
  IF a = NotANumber \/ b = NotANumber THEN NotANumber ELSE IF a >= b THEN a ELSE b

MathMin(a, b) ==
  IF a = NotANumber \/ b = NotANumber THEN NotANumber ELSE IF a <= b THEN a ELSE b

\* a clamp that maps NaN to the lower bound
ClampScale_Total(newScale) ==
  IF newScale = NotANumber THEN MIN_SCALE
  ELSE MathMin(MathMax(newScale, MIN_SCALE), MAX_SCALE)

\* Math.min(Math.max(newScale, MIN_SCALE), MAX_SCALE)
ClampScale(newScale) == MathMin(MathMax(newScale, MIN_SCALE), MAX_SCALE)

\* one coordinate of the new position: mouse - centre - pointInCanvas * clampedScale,
\* m the pointer relative to the centre of the container
PositionAfter(m, p, scale, clampedScale) ==
  IF NotANumber \in {p, scale, clampedScale} THEN NotANumber
  ELSE m - ((m - p) * clampedScale) \div scale

\* zoomToPoint(newScale, pointX, pointY); containerRef is set while mounted
ZoomToPoint(c, newScale, point) ==
  LET clampedScale == ClampScale(newScale)
  IN [c EXCEPT
        !.scale = clampedScale,
        !.position = <<PositionAfter(point[1], c.position[1], c.scale, clampedScale),
                       PositionAfter(point[2], c.position[2], c.scale, clampedScale)>>]

\* a - b on coordinates
Minus(a, b) == IF a = NotANumber \/ b = NotANumber THEN NotANumber ELSE a - b

\* pointer positions relative to the centre of the container
Points == {<<0, 0>>, <<4, -4>>}

\* e.deltaY of a wheel event
WheelDeltas == {-250, 1000}

\* distances between the two fingers of a pinch
TouchDistances == {0, 2, 4}

\* most gestures on one canvas
MaxGestures == 4

\* one more gesture has been handled
Gesture(c) == [c EXCEPT !.gestures = @ + 1]

canvasOnly == <<lightbox, extract, del, xvars, cvars, svars, kvars>>

\* handleWheel: newScale = scale * (1 + -deltaY * ZOOM_SENSITIVITY)
HandleWheel ==
  /\ \E deltaY \in WheelDeltas, point \in Points :
       canvas' = Gesture(ZoomToPoint(canvas, ScaleBy(canvas.scale, 1000 - 2 * deltaY, 1000), point))
  /\ canvas.gestures < MaxGestures
  /\ UNCHANGED canvasOnly

\* handlePanStart, from the mouse or from one finger
HandlePanStart ==
  /\ \E client \in Points :
       canvas' = Gesture([canvas EXCEPT
         !.isPanning = TRUE,
         !.panStart = <<Minus(client[1], canvas.position[1]),
                        Minus(client[2], canvas.position[2])>>])
  /\ canvas.gestures < MaxGestures
  /\ UNCHANGED canvasOnly

\* handlePanMove, from the mouse or from one finger
HandlePanMove ==
  /\ canvas.isPanning
  /\ \E client \in Points :
       canvas' = Gesture([canvas EXCEPT
         !.position = <<Minus(client[1], canvas.panStart[1]),
                        Minus(client[2], canvas.panStart[2])>>])
  /\ canvas.gestures < MaxGestures
  /\ UNCHANGED canvasOnly

\* handlePanEnd
HandlePanEnd ==
  /\ canvas.isPanning
  /\ canvas' = Gesture([canvas EXCEPT !.isPanning = FALSE])
  /\ canvas.gestures < MaxGestures
  /\ UNCHANGED canvasOnly

\* handleTouchStart with two fingers
HandleTouchStart ==
  /\ \E distance \in TouchDistances :
       canvas' = Gesture([canvas EXCEPT !.lastTouchDistance = distance])
  /\ canvas.gestures < MaxGestures
  /\ UNCHANGED canvasOnly

\* handleTouchMove with two fingers:
\* newScale = scale * (distance / lastTouchDistance)
HandleTouchMove ==
  /\ canvas.lastTouchDistance # -1
  /\ \E distance \in TouchDistances, centre \in Points :
       canvas' = Gesture([ZoomToPoint(canvas,
                              ScaleBy(canvas.scale, distance, canvas.lastTouchDistance),
                              centre)
                  EXCEPT !.lastTouchDistance = distance])
  /\ canvas.gestures < MaxGestures
  /\ UNCHANGED canvasOnly

\* handleTouchEnd
HandleTouchEnd ==
  /\ canvas.lastTouchDistance # -1 \/ canvas.isPanning
  /\ canvas' = Gesture([canvas EXCEPT !.lastTouchDistance = -1, !.isPanning = FALSE])
  /\ canvas.gestures < MaxGestures
  /\ UNCHANGED canvasOnly

\* handleZoomIn: the button is disabled at MAX_SCALE
HandleZoomIn ==
  /\ ~(canvas.scale # NotANumber /\ canvas.scale >= MAX_SCALE)
  /\ canvas' = Gesture(ZoomToPoint(canvas, ScaleBy(canvas.scale, 125, 100), <<0, 0>>))
  /\ canvas.gestures < MaxGestures
  /\ UNCHANGED canvasOnly

\* handleZoomOut: the button is disabled at MIN_SCALE
HandleZoomOut ==
  /\ ~(canvas.scale # NotANumber /\ canvas.scale <= MIN_SCALE)
  /\ canvas' = Gesture(ZoomToPoint(canvas, ScaleBy(canvas.scale, 100, 125), <<0, 0>>))
  /\ canvas.gestures < MaxGestures
  /\ UNCHANGED canvasOnly

\* handleResetView
HandleResetView ==
  /\ canvas' = Gesture([canvas EXCEPT !.scale = 100, !.position = <<0, 0>>])
  /\ canvas.gestures < MaxGestures
  /\ UNCHANGED canvasOnly

InitCanvas ==
  /\ canvas = CanvasIdle /\ lightbox = LightboxIdle /\ extract = ExtractIdle
  /\ del = DelIdle
  /\ store = {} /\ now = 2000 /\ resp = NoResp /\ prev = NoResp
  /\ KeyUnused
  /\ PageUnused
  /\ RoutesUnused

NextCanvas ==
  \/ HandleWheel \/ HandlePanStart \/ HandlePanMove \/ HandlePanEnd
  \/ HandleTouchStart \/ HandleTouchMove \/ HandleTouchEnd
  \/ HandleZoomIn \/ HandleZoomOut \/ HandleResetView

SpecCanvas == InitCanvas /\ [][NextCanvas]_vars

\* C22: after any sequence of wheel, pinch, zoom-button, pan and reset
\* operations the scale of the canvas is a number from 0.1 to 5.
C22_Claim == canvas.scale # NotANumber /\ canvas.scale >= MIN_SCALE /\ canvas.scale <= MAX_SCALE

(***************************************************************************)
(* The lightbox: src/src/components/Lightbox.tsx. Zoom is in halves.       *)
(***************************************************************************)
\* the values of zoomLevels: Fit, 100%, 200%
ZoomLevels == {2, 3, 4}

\* pointer positions in the window
ClientPoints == {<<0, 0>>, <<4, -4>>, <<-4, 0>>}

lightboxOnly == <<canvas, extract, del, xvars, cvars, svars, kvars>>

\* the page opens the lightbox
OpenLightbox ==
  /\ ~lightbox.isOpen
  /\ lightbox' = [lightbox EXCEPT !.isOpen = TRUE]
  /\ UNCHANGED lightboxOnly

\* resetView
ResetView(l) == [l EXCEPT !.zoom = 2, !.position = <<0, 0>>]

\* Escape, the close button or a click on the backdrop: onClose, and the effect
\* on isOpen resets the view
CloseLightbox ==
  /\ lightbox.isOpen
  /\ lightbox' = ResetView([lightbox EXCEPT !.isOpen = FALSE])
  /\ UNCHANGED lightboxOnly

\* one more event has been handled
Handled(l) == [l EXCEPT !.gestures = @ + 1]

\* '+', '=' or the zoom-in button, which is disabled at 4
LightboxZoomIn ==
  /\ lightbox.isOpen /\ lightbox.gestures < MaxGestures
  /\ lightbox' = Handled([lightbox EXCEPT !.zoom = IF @ + 1 <= 8 THEN @ + 1 ELSE 8])
  /\ UNCHANGED lightboxOnly

\* setZoom(z => Math.max(z - 0.5, 1))
ZoomedOut(l) == [l EXCEPT !.zoom = IF @ - 1 >= 2 THEN @ - 1 ELSE 2]

\* '-' or the zoom-out button, which is disabled at 1
LightboxZoomOut ==
  /\ lightbox.isOpen /\ lightbox.gestures < MaxGestures
  /\ lightbox' = Handled(ZoomedOut(lightbox))
  /\ UNCHANGED lightboxOnly

\* '0' or the reset button
LightboxReset ==
  /\ lightbox.isOpen /\ lightbox.gestures < MaxGestures
  /\ lightbox' = Handled(ResetView(lightbox))
  /\ UNCHANGED lightboxOnly

\* one of the zoom-level buttons
LightboxZoomLevel ==
  /\ lightbox.isOpen /\ lightbox.gestures < MaxGestures
  /\ \E level \in ZoomLevels :
       lightbox' = Handled([lightbox EXCEPT
         !.zoom = level,
         !.position = IF level = 2 THEN <<0, 0>> ELSE @])
  /\ UNCHANGED lightboxOnly

\* handleMouseDown
HandleMouseDown ==
  /\ lightbox.isOpen /\ lightbox.gestures < MaxGestures
  /\ \E client \in ClientPoints :
       lightbox' = Handled(
         IF lightbox.zoom > 2
         THEN [lightbox EXCEPT
                 !.isDragging = TRUE,
                 !.dragStart = <<client[1] - lightbox.position[1],
                                 client[2] - lightbox.position[2]>>]
         ELSE lightbox)
  /\ UNCHANGED lightboxOnly

\* handleMouseMove
HandleMouseMove ==
  /\ lightbox.isOpen /\ lightbox.gestures < MaxGestures
  /\ \E client \in ClientPoints :
       lightbox' = Handled(
         IF lightbox.isDragging /\ lightbox.zoom > 2
         THEN [lightbox EXCEPT
                 !.position = <<client[1] - lightbox.dragStart[1],
                                client[2] - lightbox.dragStart[2]>>]
         ELSE lightbox)
  /\ UNCHANGED lightboxOnly

\* handleMouseUp, also on mouse leave
HandleMouseUp ==
  /\ lightbox.isOpen /\ lightbox.gestures < MaxGestures
  /\ lightbox' = Handled([lightbox EXCEPT !.isDragging = FALSE])
  /\ UNCHANGED lightboxOnly

InitLightbox ==
  /\ canvas = CanvasIdle /\ lightbox = LightboxIdle /\ extract = ExtractIdle
  /\ del = DelIdle
  /\ store = {} /\ now = 2000 /\ resp = NoResp /\ prev = NoResp
  /\ KeyUnused
  /\ PageUnused
  /\ RoutesUnused

NextLightbox ==
  \/ OpenLightbox \/ CloseLightbox \/ LightboxZoomIn \/ LightboxZoomOut
  \/ LightboxReset \/ LightboxZoomLevel
  \/ HandleMouseDown \/ HandleMouseMove \/ HandleMouseUp

SpecLightbox == InitLightbox /\ [][NextLightbox]_vars

\* C30: after any sequence of keyboard, button, drag, open and close
\* operations the zoom of the lightbox is from 1 to 4, and whenever the zoom
\* is 1 the pan position is (0, 0).
C30_Claim ==
  /\ lightbox.zoom >= 2 /\ lightbox.zoom <= 8
  /\ lightbox.zoom = 2 => lightbox.position = <<0, 0>>

(***************************************************************************)
(* No stage is retried                                                     *)
(***************************************************************************)
\* how often the route made this outbound call before it answered
TimesMade(call) == Cardinality({i \in 1..Len(rresp.calls) : rresp.calls[i] = call})

\* C23: a request to a route makes each of its outbound calls at most once
\* (generation: crafting, synthesis; edit: source fetch, edit call, storage
\* write), whatever the outcome of a call, and the page sends a request to
\* /api/generate only on a trigger of the user, never after an answer.
C23_NoRetry ==
  /\ [](\A call \in {"craft", "source", "synth", "put"} : TimesMade(call) <= 1)
  /\ [](rresp.op = "generate" => Range(rresp.calls) \subseteq {"craft", "synth"})
  /\ [](rresp.op = "edit" => Range(rresp.calls) \subseteq {"source", "synth", "put"})
  /\ [][single'.phase = "generating" /\ single.phase # "generating"
          => single.phase = "idle" /\ rresp' = rresp]_vars
  /\ [][single' # single /\ single.phase = "generating" /\ rresp'.status \notin 200..299
          => single'.phase = "idle"]_vars

\* the provider refused the synthesis call of a generation of the page: the
\* route answered after one crafting and one synthesis call, and the page
\* shows the error and waits
C23_Witness ==
  /\ rresp.op = "generate"
  /\ rresp.synth.kind = "notOk"
  /\ rresp.calls = <<"craft", "synth">>
  /\ single.phase = "idle" /\ single.error # <<>>

(***************************************************************************)
(* Reading the provider's response: candidates[0].content.parts            *)
(***************************************************************************)
\* most parts in one response
MaxParts == 2

\* part.inlineData?.data and part.text: "none" is a field that is not there,
\* "" an empty string
PartData == {"none", "", "imageA", "imageB"}
PartTexts == {"none", "", "refused", "blocked"}
Parts == [data : PartData, text : PartTexts]
PartLists == UNION {[1..n -> Parts] : n \in 0..MaxParts}

\* a string that counts as true
Truthy(str) == str \notin {"none", ""}

\* parts.find(part => part.inlineData?.data): 0 is undefined
FindImagePart(parts) ==
  IF \E i \in 1..Len(parts) : Truthy(parts[i].data)
    THEN CHOOSE i \in 1..Len(parts) :
           Truthy(parts[i].data) /\ \A j \in 1..(i - 1) : ~Truthy(parts[j].data)
    ELSE 0

\* parts.find(part => part.text): 0 is undefined
FindTextPart(parts) ==
  IF \E i \in 1..Len(parts) : Truthy(parts[i].text)
    THEN CHOOSE i \in 1..Len(parts) :
           Truthy(parts[i].text) /\ \A j \in 1..(i - 1) : ~Truthy(parts[j].text)
    ELSE 0

GENERATE_DEFAULT == "Model did not return an image"
EDIT_DEFAULT == "Model did not return an edited image"

\* the generate route: the image, or 500 with the fixed details
ExtractGenerated(parts) ==
  LET imagePart == FindImagePart(parts)
  IN IF imagePart = 0
       THEN [status |-> 500, image |-> "none", details |-> GENERATE_DEFAULT]
       ELSE [status |-> 200, image |-> parts[imagePart].data, details |-> "none"]

\* the edit route: the image, or 500 with textPart?.text || the fixed details
ExtractEdited(parts) ==
  LET imagePart == FindImagePart(parts)
      textPart == FindTextPart(parts)
  IN IF imagePart = 0
       THEN [status |-> 500, image |-> "none",
             details |-> IF textPart = 0 THEN EDIT_DEFAULT ELSE parts[textPart].text]
       ELSE [status |-> 200, image |-> parts[imagePart].data, details |-> "none"]

extractOnly == <<canvas, lightbox, del, xvars, cvars, svars, kvars>>

\* the generate route reads the response of the synthesis call
ReadGenerated ==
  /\ extract.pc = "input" /\ extract.route = "generate"
  /\ extract' = [extract EXCEPT !.pc = "done", !.out = ExtractGenerated(extract.parts)]
  /\ UNCHANGED extractOnly

\* the edit route reads the response of the edit call
ReadEdited ==
  /\ extract.pc = "input" /\ extract.route = "edit"
  /\ extract' = [extract EXCEPT !.pc = "done", !.out = ExtractEdited(extract.parts)]
  /\ UNCHANGED extractOnly

InitParts ==
  /\ extract \in [route : {"generate", "edit"}, parts : PartLists, pc : {"input"},
                  out : {<<>>}]
  /\ canvas = CanvasIdle /\ lightbox = LightboxIdle /\ del = DelIdle
  /\ store = {} /\ now = 2000 /\ resp = NoResp /\ prev = NoResp
  /\ KeyUnused
  /\ PageUnused
  /\ RoutesUnused

NextParts == ReadGenerated \/ ReadEdited

SpecParts == InitParts /\ [][NextParts]_vars

\* the fixed details of the route
DefaultDetails == IF extract.route = "generate" THEN GENERATE_DEFAULT ELSE EDIT_DEFAULT

\* C24: the first part in list order that carries inline image data is the one
\* returned; when no part carries image data the request fails, and its details
\* are the text of the first part that carries text if there is one, else the
\* fixed message of the route.
C24_Claim ==
  extract.pc = "done" =>
    LET parts == extract.parts
        images == {i \in 1..Len(parts) : Truthy(parts[i].data)}
        texts == {i \in 1..Len(parts) : Truthy(parts[i].text)}
    IN /\ images # {} =>
            /\ extract.out.status = 200
            /\ \E i \in images : /\ \A j \in images : i <= j
                                 /\ extract.out.image = parts[i].data
       /\ images = {} =>
            /\ extract.out.status = 500
            /\ texts # {} => \E i \in texts : /\ \A j \in texts : i <= j
                                              /\ extract.out.details = parts[i].text
            /\ texts = {} => extract.out.details = DefaultDetails

(***************************************************************************)
(* The gallery under refreshes and completions                             *)
(***************************************************************************)
\* C25: the gallery of the page never holds two entries with the same artwork
\* id, however the refreshes (which replace the list) interleave with the
\* completions of generations (which prepend the new artwork).
C25_Claim ==
  \A i, j \in 1..Len(savedImages) : savedImages[i] = savedImages[j] => i = j

(***************************************************************************)
(* What DELETE removes                                                     *)
(***************************************************************************)
\* C26: a DELETE with id X removes no stored artwork whose decoded id differs
\* from X, removes at most one key, and leaves every other key as it was.
C26_Claim ==
  [][resp'.op = "delete" /\ store' # store =>
       /\ store' \subseteq store
       /\ Cardinality(store \ store') <= 1
       /\ \A pathname \in store \ store' : DecodeKey(pathname, now).id = resp'.reqId]_vars

(***************************************************************************)
(* Deleting: handleDelete of the detail view, the delete of the library,   *)
(* handleDeleteImage of the page and DELETE /api/images as the page meets  *)
(* it. Artwork ids are the numbers of artBlobs and differ from each other. *)
(***************************************************************************)
\* most DELETE requests of one session
MaxDeletes == 2

delOnly == <<canvas, lightbox, extract, apiKey, artBlobs, rresp, edits, single,
             pageButClick, svars, kvars>>

\* a detail view that deletes the image it shows
DeleteTarget_Current(v) == v.currentImage

\* onDelete(image.id): image is the prop the detail view was opened with
DeleteTarget(v) == v.opened

\* a DELETE call of the page; mount is the detail view that asked, 0 the library
DeleteCall(id, mount) == [id |-> id, phase |-> "sent", status |-> 0, mount |-> mount]

\* handleDelete up to the fetch in handleDeleteImage; the button is disabled
\* while isDeleting
HandleDelete ==
  /\ viewer.opened # 0
  /\ del.sent < MaxDeletes
  /\ ~(\E i \in 1..Len(del.calls) : del.calls[i].mount = viewer.mount)
  /\ del' = [del EXCEPT !.calls = Append(@, DeleteCall(DeleteTarget(viewer), viewer.mount)),
                        !.sent = @ + 1]
  /\ lastClick' = "none"
  /\ UNCHANGED <<viewer, savedImages, delOnly>>

\* the delete button of a library entry: handleDeleteImage up to the fetch
DeleteFromLibrary ==
  /\ viewer.opened = 0
  /\ del.sent < MaxDeletes
  /\ \E k \in 1..Len(savedImages) :
       del' = [del EXCEPT !.calls = Append(@, DeleteCall(savedImages[k], 0)),
                          !.sent = @ + 1]
  /\ lastClick' = "none"
  /\ UNCHANGED <<viewer, savedImages, delOnly>>

\* the artwork is in blob storage
Stored(id) == id \in 1..Len(artBlobs) /\ id \notin del.gone

\* DELETE /api/images answers the i-th call: 200 after del(), 404 when find()
\* met no blob, 500 when list() or del() threw; or the fetch of the page throws
DeleteServed(i) ==
  /\ del.calls[i].phase = "sent"
  /\ \E outcome \in {200, 404, 500, 0} :
       /\ outcome = 200 => Stored(del.calls[i].id)
       /\ del' = [del EXCEPT
            !.gone = IF outcome = 200 THEN @ \cup {del.calls[i].id} ELSE @,
            !.calls[i] = [@ EXCEPT !.phase = IF outcome = 0 THEN "threw" ELSE "answered",
                                   !.status = outcome]]
  /\ lastClick' = "none"
  /\ UNCHANGED <<viewer, savedImages, delOnly>>

\* a page that drops the entry whatever the server answered
ResponseOk_AnyAnswer(c) == c.phase = "answered"

\* response.ok
ResponseOk(c) == c.phase = "answered" /\ c.status \in 200..299

\* prev.filter(img => img.id !== id)
WithoutId(images, id) == SelectSeq(images, LAMBDA img : img # id)

\* handleDeleteImage after the fetch, and handleDelete after onDelete: onBack
HandleDeleteImageDone(i) ==
  /\ del.calls[i].phase \in {"answered", "threw"}
  /\ LET c == del.calls[i]
     IN /\ savedImages' = IF ResponseOk(c) THEN WithoutId(savedImages, c.id)
                                           ELSE savedImages
        /\ viewer' = IF c.mount # 0 /\ viewer.opened # 0 /\ viewer.mount = c.mount
                       THEN [ViewerClosed EXCEPT !.mount = viewer.mount]
                       ELSE viewer
        /\ del' = [del EXCEPT !.calls = WithoutAt(@, i)]
  /\ lastClick' = "none"
  /\ UNCHANGED delOnly

\* one detail view, which sends its first edit and is left by back or by its
\* delete, and the library behind it
NextDelete ==
  \/ HandleEdit /\ viewer.editMessages = <<>>
  \/ \E i \in 1..Len(edits) : EditServed(i)
  \/ \E i \in 1..Len(edits) : HandleEditDone(i)
  \/ Back
  \/ HandleDelete
  \/ DeleteFromLibrary
  \/ \E i \in 1..Len(del.calls) : DeleteServed(i)
  \/ \E i \in 1..Len(del.calls) : HandleDeleteImageDone(i)

SpecDelete == InitViewer /\ [][NextDelete]_vars

\* the step handles the answer to the i-th DELETE call
Handles(i) ==
  /\ i \in 1..Len(del.calls)
  /\ del.calls[i].phase # "sent"
  /\ del'.calls = WithoutAt(del.calls, i)

\* how often the artwork is in the gallery
InGallery(images, id) == Cardinality({k \in 1..Len(images) : images[k] = id})

\* C27: a delete of the page changes the gallery only when the answer is 2xx,
\* and then removes exactly the entries with the requested id; on any other
\* answer or a network error the gallery stays as it is.
C27_DeleteOnOk ==
  /\ [][\A i \in 1..Len(del.calls) : Handles(i) =>
          LET c == del.calls[i]
          IN IF c.phase = "answered" /\ c.status \in 200..299
               THEN /\ InGallery(savedImages', c.id) = 0
                    /\ \A id \in 1..Len(artBlobs) :
                         id # c.id => InGallery(savedImages', id) = InGallery(savedImages, id)
                    /\ savedImages' = SelectSeq(savedImages, LAMBDA img : img # c.id)
               ELSE savedImages' = savedImages]_vars
  /\ [][del' # del /\ Len(del'.calls) >= Len(del.calls) => savedImages' = savedImages]_vars

\* after an edit the gallery held two artworks; the first was deleted with a
\* 2xx answer and is gone from the gallery, the other is still there
C27_Witness ==
  /\ del.calls = <<>> /\ 1 \in del.gone
  /\ InGallery(savedImages, 1) = 0
  /\ savedImages # <<>>

EDITED == <<"e","d","i","t","e","d">>

\* (style || 'edited').replace(/[^a-zA-Z0-9-]/g, '-').toLowerCase()
EditedSafeStyle(style) ==
  LET s == IF style = <<>> THEN EDITED ELSE style
  IN ToLowerCase([i \in 1..Len(s) |-> IF IsSafeChar(s[i]) THEN s[i] ELSE "-"])

\* characters of the styles a request can carry
StyleChars == {"a", "D", "7", "-", "_", " "}

\* the styles a request can carry; <<>> is an absent or empty style
Styles == StringsUpTo(StyleChars, MaxSlugLen)

\* POST /api/images composes the filename it puts
WriteSaved ==
  /\ kPc = "input" /\ kIn.route = "save"
  /\ kKey' = EncodeKey(kIn.id, SafeStyle(kIn.style), kIn.ts)
  /\ kPc' = "written"
  /\ UNCHANGED <<kIn, kOut, svars, cvars, xvars, zvars>>

\* POST /api/edit composes the filename it puts
WriteEdited ==
  /\ kPc = "input" /\ kIn.route = "edit"
  /\ kKey' = EncodeKey(kIn.id, EditedSafeStyle(kIn.style), kIn.ts)
  /\ kPc' = "written"
  /\ UNCHANGED <<kIn, kOut, svars, cvars, xvars, zvars>>

InitWrite ==
  /\ kIn \in [route : {"save", "edit"}, id : Ids, style : Styles, ts : KeyTimes]
  /\ kKey = NoKey /\ kOut = KeyIdle /\ kPc = "input"
  /\ store = {} /\ now = 2000 /\ resp = NoResp /\ prev = NoResp
  /\ PageUnused
  /\ RoutesUnused
  /\ ZoomUnused

NextWrite == WriteSaved \/ WriteEdited

SpecWrite == InitWrite /\ [][NextWrite]_vars

\* C29: every key a save or an edit writes is frame-art/{id}_{slug}_{millis}.png
\* with an id of 8 characters none of which is an underscore and a non-empty
\* slug over a-z, 0-9 and '-': between the prefix and the suffix it splits at
\* underscores into exactly three tokens, the id, the slug and the timestamp.
C29_KeyGrammar ==
  kPc = "written" =>
    LET tokens == Split(FileName(kKey), "_")
    IN /\ Len(tokens) = 3
       /\ kKey = PREFIX \o tokens[1] \o <<"_">> \o tokens[2] \o <<"_">> \o tokens[3] \o PNG
       /\ tokens[1] = kIn.id /\ Len(tokens[1]) = ID_LEN
       /\ \A i \in 1..Len(tokens[1]) : tokens[1][i] # "_"
       /\ tokens[2] # <<>>
       /\ \A i \in 1..Len(tokens[2]) :
            tokens[2][i] \in LowerChars \cup DigitChars \cup {"-"}
       /\ tokens[3] = NumberToString(kIn.ts)
       /\ \A i \in 1..Len(tokens[3]) : tokens[3][i] \in DigitChars

\* an edit wrote the key of a style with a capital, an underscore and a space
C29_Witness ==
  /\ kPc = "written" /\ kIn.route = "edit"
  /\ kIn.style = <<"D", "_", " ">>
  /\ Split(FileName(kKey), "_")[2] = <<"d", "-", "-">>

====
